---- MODULE Spec2Model ----
(***************************************************************************)
(* RHIB racing minigame of the SPIRALS 3X bot: token and stats stores,     *)
(* solo and party races, the per-guild payout queue, the admin commands.    *)
(*                                                                         *)
(* One step of the model is one run of the event loop: a command handler   *)
(* or timer callback from its start to its first real suspension (an       *)
(* await on Discord I/O or on a timer), or a resumption up to the next     *)
(* one.  Continuations of already-resolved promises are microtasks and     *)
(* run inside the step that resolved them.                                 *)
(*                                                                         *)
(* Wall-clock time is abstracted: a cooldown is "still running" until the  *)
(* environment lets it expire, a season is "due" once the environment      *)
(* says its 14 days have passed.                                           *)
(***************************************************************************)
EXTENDS Integers, Sequences, FiniteSets, TLC

VARIABLES
  settings,               \* settings.freezeRaces / settings.freezePayouts
  tokenDB,                \* tokenDB.users : user -> [tokens, lastDaily]
  statsUsers,             \* statsDB.users : the users that have a stats object -> stats
  seasonNumber,           \* statsDB.meta.seasonNumber
  seasonDue,              \* Date.now() - statsDB.meta.seasonStart >= season length
  today,                  \* the clock, in days
  soloCd,                 \* users whose lastSoloPlay is less than SOLO_COOLDOWN_SEC ago
  activeSoloRace,         \* Set of user ids
  activeSoloRaceByGuild,  \* guildId -> count
  solo,                   \* the runSoloRace invocations accepted so far (closures)
  partyCd,                \* users whose lastPartyPlay is less than PARTY_COOLDOWN_SEC ago
  partyByGuild,           \* guildId -> index of the registered party in `party`, 0: none
  party,                  \* the party objects made so far, with their race closures
  payoutQueueByGuild,     \* guildId -> the chain of payout tasks, oldest first
  grants,                 \* history: <<user, key>> -> seasons in which the bonus was paid
  last,                   \* history: outcome of the last /race command ("off": not kept)
  race,                   \* runs of the tick loop of a race that are compared, tick by tick
  edge                    \* the last call of houseEdgeModifier: arguments, result, rng state

vars == <<settings, tokenDB, statsUsers, seasonNumber, seasonDue, today, soloCd,
          activeSoloRace, activeSoloRaceByGuild, solo, partyCd, partyByGuild, party,
          payoutQueueByGuild, grants, last, race, edge>>

---------------------------------------------------------------------------
(* Bounds of the model *)

MaxSolo == 2          \* accepted solo entries in one run
MaxParty == 1         \* party lobbies created in one run
MaxInFlight == 2      \* callbacks of one race, or invocations on one lobby, suspended at once
MaxSeason == 2        \* highest season number reached
MaxDay == 1           \* days the clock advances
StartTokens == 3      \* balance every user has in tokens.json at start-up
MaxTokens == 7        \* total of all balances an admin gift may raise the supply to
SoloCap == 2          \* MAX_ACTIVE_SOLO_RACES_PER_GUILD as deployed (env, >= 1)
MaxTick == 40         \* ticks of one run of the tick loop
MaxStreak == 2        \* highest win streak a backing player reaches during a run
MaxCalls == 6         \* calls of houseEdgeModifier in one run of its specification
MaxSoloLong == 3      \* accepted solo entries in a run that follows one player
MaxPartyLong == 2     \* party lobbies created in a run that follows one guild's registry
MaxStreakChanges == 1 \* finalizations of other races of the backing players during a run

Users == {"u1", "u2"}
Guilds == {"g1"}

---------------------------------------------------------------------------
(* Game configuration *)

DAILY_TOKENS == 1
MAX_ACTIVE_SOLO_RACES_PER_GUILD == IF SoloCap >= 1 THEN SoloCap ELSE 1

TierKeys == {"low", "standard", "high"}
TIERS ==
  [low      |-> [tokenCost |-> 1, payouts |-> <<250000, 75000, 25000, 10000, 5000>>],
   standard |-> [tokenCost |-> 2, payouts |-> <<1000000, 250000, 60000, 30000, 15000>>],
   high     |-> [tokenCost |-> 3, payouts |-> <<2000000, 500000, 120000, 60000, 30000>>]]

\* tier.payouts[place] || 0
PayoutOf(tierKey, place) ==
  IF place \in DOMAIN TIERS[tierKey].payouts THEN TIERS[tierKey].payouts[place] ELSE 0

COLOURS == <<"red", "blue", "green", "yellow", "purple">>
ColourKeys == {COLOURS[i] : i \in DOMAIN COLOURS}

ACH ==
  [first_race   |-> [tokens |-> 1],
   first_win    |-> [tokens |-> 2],
   photo_finish |-> [tokens |-> 1],
   streak_3     |-> [tokens |-> 2],
   podium_5     |-> [tokens |-> 2],
   party_win    |-> [tokens |-> 2]]
AchKeys == DOMAIN ACH

Max(a, b) == IF a >= b THEN a ELSE b
Min(a, b) == IF a <= b THEN a ELSE b

---------------------------------------------------------------------------
(* Stores *)

newUserStats ==
  [races |-> 0, wins |-> 0, totalWon |-> 0, bestFinish |-> 99, podiums |-> 0,
   winStreak |-> 0, bestWinStreak |-> 0, achievements |-> {}]

\* statsDB.users = {}
NoUsers == [u \in {} |-> newUserStats]

\* getStats(userId): the users map after the lazy creation of userId's object
getStats(users, u) ==
  IF u \in DOMAIN users THEN users ELSE users @@ (u :> newUserStats)

\* what a reader of statsDB sees for u (getStats(u) without the side effect)
StatsOf(users, u) == getStats(users, u)[u]

\* a season reset that starts the new season without clearing statsDB.users
seasonCheckKeepsStats(users, number, due) ==
  IF due
    THEN [users |-> users, seasonNumber |-> number + 1, due |-> FALSE, reset |-> FALSE]
    ELSE [users |-> users, seasonNumber |-> number, due |-> FALSE, reset |-> FALSE]

\* seasonCheckAndResetIfNeeded(): [users, seasonNumber, due, reset]
seasonCheckAndResetIfNeeded(users, number, due) ==
  IF due
    THEN [users |-> NoUsers, seasonNumber |-> number + 1, due |-> FALSE, reset |-> TRUE]
    ELSE [users |-> users, seasonNumber |-> number, due |-> FALSE, reset |-> FALSE]

\* the tokens held by the users of set S
RECURSIVE supply(_, _)
supply(tok, S) ==
  IF S = {} THEN 0
  ELSE LET u == CHOOSE x \in S : TRUE IN tok[u].tokens + supply(tok, S \ {u})

\* getTok(userId).tokens += n
addTokens(tok, u, n) == [tok EXCEPT ![u].tokens = @ + n]

\* an award without the `already held` return
awardAchievementAgain(db, u, achKey) ==
  LET users1 == getStats(db.users, u)
  IN IF achKey \notin AchKeys
       THEN [users |-> users1, tok |-> db.tok, def |-> "null"]
     ELSE [users |-> [users1 EXCEPT ![u].achievements = @ \cup {achKey}],
           tok   |-> addTokens(db.tok, u, ACH[achKey].tokens),
           def   |-> achKey]

\* an award that pays the bonus and does not record the key
awardAchievementForgets(db, u, achKey) ==
  LET users1 == getStats(db.users, u)
  IN IF achKey \in users1[u].achievements \/ achKey \notin AchKeys
       THEN [users |-> users1, tok |-> db.tok, def |-> "null"]
     ELSE [users |-> users1,
           tok   |-> addTokens(db.tok, u, ACH[achKey].tokens),
           def   |-> achKey]

\* awardAchievement(userId, achKey) on db = [users, tok]; def is the key of the
\* definition returned, "null" for return null
awardAchievement(db, u, achKey) ==
  LET users1 == getStats(db.users, u)
  IN IF achKey \in users1[u].achievements
       THEN [users |-> users1, tok |-> db.tok, def |-> "null"]
     ELSE IF achKey \notin AchKeys
       THEN [users |-> users1, tok |-> db.tok, def |-> "null"]
     ELSE [users |-> [users1 EXCEPT ![u].achievements = @ \cup {achKey}],
           tok   |-> addTokens(db.tok, u, ACH[achKey].tokens),
           def   |-> achKey]

\* a streak update that stores the current streak as the best one
updateStatsBestIsCurrent(s, truePlace, winnings) ==
  LET streak == IF truePlace = 1 THEN s.winStreak + 1 ELSE 0
  IN [s EXCEPT
        !.winStreak = streak,
        !.bestWinStreak = streak,
        !.bestFinish = Min(@, truePlace),
        !.wins = IF truePlace = 1 THEN @ + 1 ELSE @,
        !.podiums = IF truePlace <= 3 THEN @ + 1 ELSE @,
        !.totalWon = @ + winnings]

\* the streak / finish / totals update of a finalization (same code in both races)
updateStats(s, truePlace, winnings) ==
  LET streak == IF truePlace = 1 THEN s.winStreak + 1 ELSE 0
  IN [s EXCEPT
        !.winStreak = streak,
        !.bestWinStreak = IF truePlace = 1 THEN Max(@, streak) ELSE @,
        !.bestFinish = Min(@, truePlace),
        !.wins = IF truePlace = 1 THEN @ + 1 ELSE @,
        !.podiums = IF truePlace <= 3 THEN @ + 1 ELSE @,
        !.totalWon = @ + winnings]

---------------------------------------------------------------------------
(* Payout queue: payoutQueueByGuild[g] is the promise chain, one record per *)
(* enqueuePayout call; a task is                                           *)
(*   queued    its predecessor has not settled                             *)
(*   sleeping  in the 850 ms setTimeout                                    *)
(*   calling   kaosAddPoints is in flight                                  *)
(*   sent / failed / skipped   settled                                     *)

Settled(t) == t.state \in {"sent", "failed", "skipped"}

\* may the .then callback of a task appended after q start at once
chainIdle(q) == Len(q) = 0 \/ Settled(q[Len(q)])

\* enqueuePayout(guild, discordId, amount): the chain after the call
\* an enqueue that starts its task at once instead of chaining it on `prev`
enqueuePayoutUnchained(q, u, amount) ==
  Append(q, [user |-> u, amount |-> amount, waited |-> ~chainIdle(q),
             state |-> "sleeping"])

\* (waited: the task was appended behind an unsettled one)
enqueuePayout(q, u, amount) ==
  Append(q, [user |-> u, amount |-> amount, waited |-> ~chainIdle(q),
             state |-> IF chainIdle(q) THEN "sleeping" ELSE "queued"])

\* task k of chain q settles with `outcome` (its closure is released); the .then of
\* its successor runs
settle(q, k, outcome) ==
  [j \in DOMAIN q |->
     IF j = k THEN [user |-> "", amount |-> 0, waited |-> FALSE, state |-> outcome]
     ELSE IF j = k + 1 /\ q[j].state = "queued" THEN [q[j] EXCEPT !.state = "sleeping"]
     ELSE q[j]]

---------------------------------------------------------------------------
(* The mutable stores a handler works on, threaded through its sub-steps *)

World ==
  [tok |-> tokenDB, users |-> statsUsers, active |-> activeSoloRace,
   byGuild |-> activeSoloRaceByGuild, solo |-> solo, queue |-> payoutQueueByGuild,
   grants |-> grants, partyCd |-> partyCd, registry |-> partyByGuild, party |-> party,
   season |-> seasonNumber, due |-> seasonDue]

\* a closure nothing refers to any more: timer cleared, no callback in flight
finishedClosure(c) ==
  c.timer = "off" /\ c.edits = 0 /\ c.editsP = 0 /\ c.fin = "done"

\* what the history keeps of a finished closure
retire(c) ==
  IF finishedClosure(c)
    THEN [c EXCEPT !.tier = "", !.bet = "", !.stRef = "gone", !.st = newUserStats,
                   !.result = [places |-> << >>, photoFinish |-> FALSE], !.task = 0]
    ELSE c

\* a party object nothing works on any more: unregistered, no invocation in flight
finishedParty(w, p) ==
  LET P == w.party[p]
  IN /\ P.fin = "done"
     /\ w.registry[P.guild] # p
     /\ P.replies + P.audits + P.cancels + P.staging + P.edits + P.editsP = 0

\* what the history keeps of a finished party
retireParty(w, p) ==
  IF finishedParty(w, p)
    THEN [w.party[p] EXCEPT !.tierKey = "", !.players = << >>, !.visited = {},
                            !.entrants = {},
                            !.result = [places |-> << >>, photoFinish |-> FALSE],
                            !.task = 0]
    ELSE w.party[p]

Commit(w) ==
  \E x \in {w} :
    /\ tokenDB' = x.tok
    /\ statsUsers' = x.users
    /\ activeSoloRace' = x.active
    /\ activeSoloRaceByGuild' = x.byGuild
    /\ solo' = [i \in DOMAIN x.solo |-> retire(x.solo[i])]
    /\ payoutQueueByGuild' = x.queue
    /\ grants' = x.grants
    /\ partyCd' = x.partyCd
    /\ partyByGuild' = x.registry
    /\ party' = [p \in DOMAIN x.party |-> retireParty(x, p)]
    /\ seasonNumber' = x.season
    /\ seasonDue' = x.due

\* the history variable `last`, kept only by the specifications that start it at ""
note(outcome) ==
  /\ last' = IF last = "off" THEN "off" ELSE outcome
  /\ UNCHANGED <<race, edge>>

\* awardAchievement called from a finalization; the history of paid bonuses
award(w, u, achKey) ==
  LET r == awardAchievement([users |-> w.users, tok |-> w.tok], u, achKey)
  IN [w EXCEPT !.users = r.users, !.tok = r.tok,
               !.grants = IF r.def = "null" THEN @
                          ELSE [@ EXCEPT ![<<u, achKey>>] = Append(@, w.season)]]

RECURSIVE awardAll(_, _, _)
awardAll(w, u, keys) ==
  IF keys = << >> THEN w ELSE awardAll(award(w, u, Head(keys)), u, Tail(keys))

\* statsDB.users = {} : every closure that still uses its `st` keeps the old object
detach(races, users) ==
  [i \in DOMAIN races |->
     IF races[i].stRef = "live" /\ ~races[i].raceFinalized
       THEN [races[i] EXCEPT !.stRef = "stale", !.st = users[races[i].user]]
       ELSE races[i]]

\* seasonCheckAndResetIfNeeded() on the stores
seasonCheck(w) ==
  LET sc == seasonCheckAndResetIfNeeded(w.users, w.season, w.due)
  IN [w EXCEPT !.users = sc.users, !.season = sc.seasonNumber, !.due = sc.due,
               !.solo = IF sc.reset THEN detach(@, w.users) ELSE @]

---------------------------------------------------------------------------
(* Solo race *)

\* places: the finish order (colour keys, 1st first); photoFinish: places[0] and
\* places[1] share their finishTick.  << >> while not every racer has finished.
NoResult == [places |-> << >>, photoFinish |-> FALSE]

\* outcomes of the movement loop the model explores
FinishOrders ==
  { <<"red", "blue", "green", "yellow", "purple">>,
    <<"blue", "green", "yellow", "red", "purple">>,
    <<"green", "yellow", "purple", "blue", "red">> }

placeOf(places, key) == CHOOSE i \in DOMAIN places : places[i] = key

\* the `st` of closure i
stOf(w, i) == IF w.solo[i].stRef = "live" THEN w.users[w.solo[i].user] ELSE w.solo[i].st

setSt(w, i, s) ==
  IF w.solo[i].stRef = "live"
    THEN [w EXCEPT !.users[w.solo[i].user] = s]
    ELSE [w EXCEPT !.solo[i].st = s]

\* finally { if (raceFinalized) ... }
soloFinally(w, i) ==
  LET r == w.solo[i]
  IN IF r.raceFinalized
       THEN [w EXCEPT !.active = @ \ {r.user},
                      !.byGuild[r.guild] = Max(0, @ - 1)]
       ELSE w

\* the finalization block up to its first await
soloFinalize(w, i) ==
  LET r         == w.solo[i]
      truePlace == placeOf(r.result.places, r.bet)
      winnings  == PayoutOf(r.tier, truePlace)
      st        == updateStats(stOf(w, i), truePlace, winnings)
      w1        == setSt([w EXCEPT !.solo[i].raceFinalized = TRUE,
                                   !.solo[i].timer = "off",
                                   !.solo[i].finalCount = @ + 1], i, st)
      keys      == (IF st.races = 1 THEN <<"first_race">> ELSE << >>)
                   \o (IF truePlace = 1 THEN <<"first_win">> ELSE << >>)
                   \o (IF r.result.photoFinish THEN <<"photo_finish">> ELSE << >>)
                   \o (IF st.winStreak >= 3 THEN <<"streak_3">> ELSE << >>)
                   \o (IF st.podiums >= 5 THEN <<"podium_5">> ELSE << >>)
      w2        == awardAll(w1, r.user, keys)
  IN IF winnings > 0 /\ ~settings.freezePayouts
       THEN [w2 EXCEPT !.queue[r.guild] = enqueuePayout(@, r.user, winnings),
                       !.solo[i].fin = "payout",
                       !.solo[i].task = Len(w2.queue[r.guild]) + 1]
       ELSE [w2 EXCEPT !.solo[i].fin = "reply"]

\* a tick callback that finalizes without looking at the raceFinalized latch
soloAfterEditUnlatched(w, i, hasPlaces) ==
  IF hasPlaces THEN soloFinalize(w, i) ELSE soloFinally(w, i)

\* a tick callback from `if (places.length && !raceFinalized)` to its next await
soloAfterEdit(w, i, hasPlaces) ==
  IF hasPlaces /\ ~w.solo[i].raceFinalized
    THEN soloFinalize(w, i)
    ELSE soloFinally(w, i)

\* a catch block that stops the timer but leaves the raceFinalized latch open
soloCatchUnlatched(w, i) ==
  [w EXCEPT !.solo[i].timer = "off", !.solo[i].fin = "fault"]

\* catch (e) { raceFinalized = true; clearInterval(interval); ... } of a solo tick
\* (fin = "fault": the race ended in the catch block, no finalization has begun)
soloCatch(w, i) ==
  [w EXCEPT !.solo[i].raceFinalized = TRUE, !.solo[i].timer = "off",
            !.solo[i].fin = "fault"]

\* the awaited enqueuePayout promise of task k of guild g resolves
soloPaid(w, g, k) ==
  [w EXCEPT !.solo = [i \in DOMAIN w.solo |->
     IF w.solo[i].fin = "payout" /\ w.solo[i].guild = g /\ w.solo[i].task = k
       THEN [w.solo[i] EXCEPT !.fin = "reply"]
       ELSE w.solo[i]]]

\* the entry checks of runSoloRace, in the order of the code
soloOutcome(w, g, u, tierKey) ==
  IF w.byGuild[g] >= MAX_ACTIVE_SOLO_RACES_PER_GUILD THEN "cap"
  ELSE IF u \in soloCd THEN "cooldown"
  ELSE IF u \in w.active THEN "duplicate"
  ELSE IF w.tok[u].tokens < TIERS[tierKey].tokenCost THEN "tokens"
  ELSE "accepted"

\* an entry that debits before it checks
soloEnterDebitFirst(w, outcome, g, u, colourKey, tierKey) ==
  [w EXCEPT !.tok[u].tokens = @ - TIERS[tierKey].tokenCost]

\* runSoloRace after its checks: the reply of a rejected entry, or the debit, the
\* cooldown, `st`, the guards and the race closure of an accepted one
soloEnter(w, outcome, g, u, colourKey, tierKey) ==
  LET closure == [guild |-> g, user |-> u, tier |-> tierKey, bet |-> colourKey,
                  stRef |-> "live", st |-> newUserStats, timer |-> "launch",
                  raceFinalized |-> FALSE, result |-> NoResult,
                  edits |-> 0, editsP |-> 0, fin |-> "none", task |-> 0,
                  finalCount |-> 0, debits |-> 1]
  IN IF outcome # "accepted" THEN w
     ELSE [w EXCEPT !.tok[u].tokens = @ - TIERS[tierKey].tokenCost,
                    !.users = [getStats(@, u) EXCEPT ![u].races = @ + 1],
                    !.active = @ \cup {u},
                    !.byGuild[g] = @ + 1,
                    !.solo = Append(@, closure)]

\* async function runSoloRace(interaction, colourKey, tierKey), to its first await,
\* in a run of the bot that accepts at most `cap` solo entries
runSoloRaceUpTo(cap, g, u, colourKey, tierKey) ==
  IF settings.freezeRaces
    THEN /\ note("frozen")
         /\ UNCHANGED <<settings, tokenDB, statsUsers, seasonNumber, seasonDue, today,
                        soloCd, activeSoloRace, activeSoloRaceByGuild, solo,
                        partyCd, partyByGuild, party, payoutQueueByGuild, grants>>
    ELSE
      LET w0      == seasonCheck(World)
          outcome == soloOutcome(w0, g, u, tierKey)
      IN /\ outcome = "accepted" => Len(solo) < cap
         /\ Commit(soloEnter(w0, outcome, g, u, colourKey, tierKey))
         /\ soloCd' = IF outcome = "accepted" THEN soloCd \cup {u} ELSE soloCd
         /\ note(outcome)
         /\ UNCHANGED <<settings, today>>

runSoloRace(g, u, colourKey, tierKey) == runSoloRaceUpTo(MaxSolo, g, u, colourKey, tierKey)

\* auditLog, cinematicLaunch and followUp have returned: setInterval(..., TICK_MS)
soloLaunch(i) ==
  /\ i \in DOMAIN solo
  /\ solo[i].timer = "launch"
  /\ solo' = [solo EXCEPT ![i].timer = "on"]
  /\ note("")
  /\ UNCHANGED <<settings, tokenDB, statsUsers, seasonNumber, seasonDue, today, soloCd,
                 activeSoloRace, activeSoloRaceByGuild, partyCd, partyByGuild, party,
                 payoutQueueByGuild, grants>>

\* cinematicLaunch (interaction.reply, interaction.editReply) or interaction.followUp
\* rejects: runSoloRace rejects with it before setInterval; the handler of
\* interactionCreate logs the error and replies
soloLaunchFails(i) ==
  /\ i \in DOMAIN solo
  /\ solo[i].timer = "launch"
  /\ solo' = [solo EXCEPT ![i].timer = "failed"]
  /\ note("")
  /\ UNCHANGED <<settings, tokenDB, statsUsers, seasonNumber, seasonDue, today, soloCd,
                 activeSoloRace, activeSoloRaceByGuild, partyCd, partyByGuild, party,
                 payoutQueueByGuild, grants>>

\* the interval fires: one tick callback, to its first await.  allFinish: this tick
\* brings the last racer home, in the order `places`; edit: the frame changed and
\* msg.edit is awaited
soloTick(i, allFinish, places, photoFinish, edit) ==
  /\ i \in DOMAIN solo
  /\ solo[i].timer = "on"
  /\ LET r         == solo[i]
         result    == IF r.result # NoResult THEN r.result
                      ELSE IF allFinish THEN [places |-> places, photoFinish |-> photoFinish]
                      ELSE NoResult
         hasPlaces == result # NoResult
         w0        == [World EXCEPT !.solo[i].result = result]
     IN IF edit
          THEN /\ r.edits + r.editsP < MaxInFlight
               /\ Commit([w0 EXCEPT !.solo[i].edits = IF hasPlaces THEN @ ELSE @ + 1,
                                    !.solo[i].editsP = IF hasPlaces THEN @ + 1 ELSE @])
          ELSE Commit(soloAfterEdit(w0, i, hasPlaces))
  /\ note("")
  /\ UNCHANGED <<settings, today, soloCd>>

\* the interval fires and the tick callback throws before its first await (the
\* latch is open, so the finalization has not begun): catch, then finally
soloTickThrows(i) ==
  /\ i \in DOMAIN solo
  /\ solo[i].timer = "on"
  /\ ~solo[i].raceFinalized
  /\ Commit(soloFinally(soloCatch(World, i), i))
  /\ note("")
  /\ UNCHANGED <<settings, today, soloCd>>

\* msg.edit of a suspended tick callback returns; hasPlaces: its `places` is non-empty
soloEdited(i, hasPlaces) ==
  /\ i \in DOMAIN solo
  /\ IF hasPlaces THEN solo[i].editsP > 0 ELSE solo[i].edits > 0
  /\ LET w0 == [World EXCEPT !.solo[i].edits = IF hasPlaces THEN @ ELSE @ - 1,
                             !.solo[i].editsP = IF hasPlaces THEN @ - 1 ELSE @]
     IN Commit(soloAfterEdit(w0, i, hasPlaces))
  /\ note("")
  /\ UNCHANGED <<settings, today, soloCd>>

\* msg.reply and the closing auditLog of the finalizing callback return
soloReplied(i) ==
  /\ i \in DOMAIN solo
  /\ solo[i].fin = "reply"
  /\ Commit(soloFinally([World EXCEPT !.solo[i].fin = "done"], i))
  /\ note("")
  /\ UNCHANGED <<settings, today, soloCd>>

---------------------------------------------------------------------------
(* Party race *)

\* makeParty(hostId, channelId, tierKey) plus the state of the invocations that work
\* on the party object:
\*   replies   /raceparty start commands awaiting interaction.reply
\*   audits    runPartyRace invocations awaiting the seed auditLog
\*   cancels   cancelParty calls awaiting the lobby message
\*   staging   runPartyRace invocations between the debit and setInterval
\*   intervals running tick intervals
\*   entrants  history: the members of party.players when the finalization began
\*   racesAtStart  history: the race counts when the runPartyRace invocation that
\*             awaits the seed auditLog began
makeParty(g, hostId, tierKey) ==
  [guild |-> g, hostId |-> hostId, state |-> "LOBBY", finalized |-> FALSE,
   players |-> << >>, tierKey |-> tierKey, autoStartTimeout |-> "unset",
   replies |-> 0, audits |-> 0, cancels |-> 0, staging |-> 0, intervals |-> 0,
   result |-> NoResult, edits |-> 0, editsP |-> 0,
   fin |-> "none", visited |-> {}, task |-> 0,
   finalCount |-> 0, debits |-> [u \in Users |-> 0], entrants |-> {},
   racesAtStart |-> [u \in Users |-> 0]]

\* party.players is a Map in insertion order: uid -> { colourKey }
uidsOf(P) == {P.players[i].uid : i \in DOMAIN P.players}

colourTaken(P, colourKey) == \E i \in DOMAIN P.players : P.players[i].colourKey = colourKey

\* party.players.set(uid, { colourKey })
playersSet(players, uid, colourKey) ==
  IF \E i \in DOMAIN players : players[i].uid = uid
    THEN [i \in DOMAIN players |->
            IF players[i].uid = uid THEN [uid |-> uid, colourKey |-> colourKey]
            ELSE players[i]]
    ELSE Append(players, [uid |-> uid, colourKey |-> colourKey])

\* party.players.delete(uid)
playersDelete(players, uid) ==
  LET keep(e) == e.uid # uid IN SelectSeq(players, keep)

\* invocations in flight on party object P
inFlight(P) == P.replies + P.audits + P.cancels

\* cancelParty(guild, party, reason), to its await on the lobby message
\* cancelParty after the lobby message: clearTimeout, partyByGuild.delete(guild.id)
cancelPartyEnd(w, p) ==
  [w EXCEPT !.party[p].cancels = Max(0, @ - 1),
            !.party[p].autoStartTimeout = IF @ = "armed" THEN "cleared" ELSE @,
            !.registry[w.party[p].guild] = 0]

\* cancelParty(guild, party, reason), to its await on the lobby message; without a
\* posted message (party.messageId null) nothing is awaited
cancelParty(w, p) ==
  IF w.party[p].autoStartTimeout = "unset"
    THEN cancelPartyEnd(w, p)
    ELSE [w EXCEPT !.party[p].cancels = @ + 1]

\* runPartyRace(guild, party), to its first await
runPartyRace(w, p) ==
  IF settings.freezeRaces THEN w
  ELSE LET w0 == seasonCheck(w)
           P  == w0.party[p]
       IN IF P.state # "LOBBY" \/ P.finalized THEN w0
          ELSE IF Len(P.players) < 2 THEN cancelParty(w0, p)
          ELSE [w0 EXCEPT !.party[p].audits = @ + 1,
                          !.party[p].racesAtStart =
                             [u \in Users |-> StatsOf(w.users, u).races]]

\* the debit loop over party.players.keys()
RECURSIVE debitAll(_, _, _)
debitAll(w, p, uids) ==
  IF uids = << >> THEN w
  ELSE LET uid == Head(uids)
           w1  == [w EXCEPT !.tok[uid].tokens = @ - TIERS[w.party[p].tierKey].tokenCost,
                            !.partyCd = @ \cup {uid},
                            !.users = [getStats(@, uid) EXCEPT ![uid].races = @ + 1],
                            !.party[p].debits[uid] = @ + 1]
       IN debitAll(w1, p, Tail(uids))

\* a start that debits without the token re-check
runPartyRaceAuditedNoTokenCheck(w, p) ==
  LET P       == w.party[p]
      blocked == \E uid \in uidsOf(P) : uid \in w.partyCd
      w0      == [w EXCEPT !.party[p].audits = @ - 1,
                           !.party[p].racesAtStart = [u \in Users |-> 0]]
  IN IF blocked THEN cancelParty(w0, p)
     ELSE LET w1 == debitAll(w0, p, [i \in DOMAIN P.players |-> P.players[i].uid])
          IN [w1 EXCEPT !.party[p].state = "RUNNING",
                        !.party[p].autoStartTimeout = IF @ = "armed" THEN "cleared" ELSE @,
                        !.party[p].staging = @ + 1]

\* a start that debits the members before it re-checks them
runPartyRaceAuditedDebitFirst(w, p) ==
  LET P       == w.party[p]
      cost    == TIERS[P.tierKey].tokenCost
      blocked == \E uid \in uidsOf(P) : uid \in w.partyCd \/ w.tok[uid].tokens < cost
      w0      == [w EXCEPT !.party[p].audits = @ - 1,
                           !.party[p].racesAtStart = [u \in Users |-> 0]]
      w1      == debitAll(w0, p, [i \in DOMAIN P.players |-> P.players[i].uid])
  IN IF blocked THEN cancelParty(w1, p)
     ELSE [w1 EXCEPT !.party[p].state = "RUNNING",
                     !.party[p].autoStartTimeout = IF @ = "armed" THEN "cleared" ELSE @,
                     !.party[p].staging = @ + 1]

\* runPartyRace from the return of auditLog to its next await
runPartyRaceAudited(w, p) ==
  LET P       == w.party[p]
      cost    == TIERS[P.tierKey].tokenCost
      blocked == \E uid \in uidsOf(P) : uid \in w.partyCd \/ w.tok[uid].tokens < cost
      w0      == [w EXCEPT !.party[p].audits = @ - 1,
                           !.party[p].racesAtStart = [u \in Users |-> 0]]
  IN IF blocked THEN cancelParty(w0, p)
     ELSE LET w1 == debitAll(w0, p, [i \in DOMAIN P.players |-> P.players[i].uid])
          IN [w1 EXCEPT !.party[p].state = "RUNNING",
                        !.party[p].autoStartTimeout = IF @ = "armed" THEN "cleared" ELSE @,
                        !.party[p].staging = @ + 1]

\* the keys a party finalization offers to awardAchievement, in order
partyAwardKeys(s, truePlace, photoFinish) ==
  (IF s.races = 1 THEN <<"first_race">> ELSE << >>)
  \o (IF truePlace = 1 THEN <<"first_win", "party_win">> ELSE << >>)
  \o (IF photoFinish THEN <<"photo_finish">> ELSE << >>)
  \o (IF s.winStreak >= 3 THEN <<"streak_3">> ELSE << >>)
  \o (IF s.podiums >= 5 THEN <<"podium_5">> ELSE << >>)

\* for (const [uid, p] of party.players.entries()) { ... }: the loop from its next
\* entry to its next await (the iterator skips entries deleted meanwhile)
RECURSIVE partyLoop(_, _)
partyLoop(w, p) ==
  LET P    == w.party[p]
      rest == {i \in DOMAIN P.players : P.players[i].uid \notin P.visited}
  IN IF rest = {}
       THEN [w EXCEPT !.party[p].fin = "end"]
       ELSE LET e         == P.players[CHOOSE i \in rest : \A j \in rest : i <= j]
                truePlace == placeOf(P.result.places, e.colourKey)
                amount    == PayoutOf(P.tierKey, truePlace)
                users1    == getStats(w.users, e.uid)
                s         == updateStats(users1[e.uid], truePlace, amount)
                w1        == awardAll([w EXCEPT !.users = [users1 EXCEPT ![e.uid] = s],
                                                !.party[p].visited = @ \cup {e.uid}],
                                      e.uid,
                                      partyAwardKeys(s, truePlace, P.result.photoFinish))
            IN IF amount > 0 /\ ~settings.freezePayouts
                 THEN [w1 EXCEPT !.queue[P.guild] = enqueuePayout(@, e.uid, amount),
                                 !.party[p].fin = "payout",
                                 !.party[p].task = Len(w1.queue[P.guild]) + 1]
                 ELSE partyLoop(w1, p)

\* the finalization block of a party tick, to its first await
partyFinalize(w, p) ==
  partyLoop([w EXCEPT !.party[p].finalized = TRUE,
                      !.party[p].entrants = uidsOf(w.party[p]),
                      !.party[p].intervals = @ - 1,
                      !.party[p].finalCount = @ + 1], p)

\* a tick callback from `if (places.length && !party.finalized)` on
partyAfterEdit(w, p, hasPlaces) ==
  IF hasPlaces /\ ~w.party[p].finalized THEN partyFinalize(w, p) ELSE w

\* the awaited enqueuePayout promise of task k of guild g resolves
partyPaid(w, g, k) ==
  LET waiting == {p \in DOMAIN w.party :
                    w.party[p].fin = "payout" /\ w.party[p].guild = g /\ w.party[p].task = k}
  IN IF waiting = {} THEN w ELSE partyLoop(w, CHOOSE p \in waiting : TRUE)

\* every continuation of the settled task k of guild g
paid(w, g, k) == partyPaid(soloPaid(w, g, k), g, k)

\* the frame of a party step
partyFrame == note("") /\ UNCHANGED <<settings, today, soloCd>>

\* /raceparty create, in a run of the bot in which at most `cap` lobbies are created
racepartyCreateUpTo(cap, g, u, tierKey, colourKey) ==
  /\ LET accepted == /\ ~settings.freezeRaces
                     /\ partyByGuild[g] = 0
                     /\ u \notin partyCd
                     /\ tokenDB[u].tokens >= TIERS[tierKey].tokenCost
         P        == [makeParty(g, u, tierKey) EXCEPT
                        !.players = playersSet(@, u, colourKey)]
     IN IF accepted
          THEN /\ Len(party) < cap
               /\ Commit([World EXCEPT !.party = Append(@, P),
                                       !.registry[g] = Len(party) + 1])
          ELSE Commit(World)
  /\ partyFrame

racepartyCreate(g, u, tierKey, colourKey) ==
  racepartyCreateUpTo(MaxParty, g, u, tierKey, colourKey)

\* /raceparty create after the ping and editOrPostPartyEmbed: the 60 s timer is set
racepartyPosted(p) ==
  /\ p \in DOMAIN party
  /\ party[p].autoStartTimeout = "unset"
  /\ Commit([World EXCEPT !.party[p].autoStartTimeout = "armed"])
  /\ partyFrame

\* the 60 s timer of lobby p fires
autoStart(p) ==
  /\ p \in DOMAIN party
  /\ party[p].autoStartTimeout = "armed"
  /\ LET w0 == [World EXCEPT !.party[p].autoStartTimeout = "fired"]
         q  == partyByGuild[party[p].guild]
     IN IF q = 0 THEN Commit(w0)
        ELSE /\ inFlight(party[q]) < MaxInFlight
             /\ Commit(runPartyRace(w0, q))
  /\ partyFrame

\* /raceparty join
racepartyJoin(g, u, colourKey) ==
  /\ partyByGuild[g] # 0
  /\ LET p        == partyByGuild[g]
         P        == party[p]
         accepted == /\ P.state = "LOBBY"
                     /\ u \notin partyCd
                     /\ tokenDB[u].tokens >= TIERS[P.tierKey].tokenCost
                     /\ ~colourTaken(P, colourKey)
                     /\ ~(Len(P.players) >= 5 /\ u \notin uidsOf(P))
     IN Commit(IF accepted
                 THEN [World EXCEPT !.party[p].players = playersSet(@, u, colourKey)]
                 ELSE World)
  /\ partyFrame

\* /raceparty leave
racepartyLeave(g, u) ==
  /\ partyByGuild[g] # 0
  /\ LET p  == partyByGuild[g]
         P  == party[p]
         w0 == [World EXCEPT !.party[p].players = playersDelete(@, u)]
     IN IF u \notin uidsOf(P) THEN Commit(World)
        ELSE IF u = P.hostId
          THEN /\ inFlight(P) < MaxInFlight
               /\ Commit(cancelParty(w0, p))
          ELSE Commit(w0)
  /\ partyFrame

\* /raceparty cancel
racepartyCancel(g, u) ==
  /\ partyByGuild[g] # 0
  /\ LET p == partyByGuild[g]
     IN IF u # party[p].hostId THEN Commit(World)
        ELSE /\ inFlight(party[p]) < MaxInFlight
             /\ Commit(cancelParty(World, p))
  /\ partyFrame

\* cancelParty resumes after the lobby message was fetched and edited
partyCancelled(p) ==
  /\ p \in DOMAIN party
  /\ party[p].cancels > 0
  /\ Commit(cancelPartyEnd(World, p))
  /\ partyFrame

\* /raceparty start, to its await on interaction.reply
racepartyStart(g, u) ==
  /\ partyByGuild[g] # 0
  /\ LET p == partyByGuild[g]
     IN IF u # party[p].hostId THEN Commit(World)
        ELSE /\ inFlight(party[p]) < MaxInFlight
             /\ Commit([World EXCEPT !.party[p].replies = @ + 1])
  /\ partyFrame

\* /raceparty start after interaction.reply: runPartyRace(interaction.guild, party)
partyStartReplied(p) ==
  /\ p \in DOMAIN party
  /\ party[p].replies > 0
  /\ Commit(runPartyRace([World EXCEPT !.party[p].replies = @ - 1], p))
  /\ partyFrame

\* the seed auditLog of a runPartyRace invocation returns
partyAudited(p) ==
  /\ p \in DOMAIN party
  /\ party[p].audits > 0
  /\ Commit(runPartyRaceAudited(World, p))
  /\ partyFrame

\* the staging awaits of a runPartyRace invocation return: setInterval(..., TICK_MS)
partyStaged(p) ==
  /\ p \in DOMAIN party
  /\ party[p].staging > 0
  /\ Commit([World EXCEPT !.party[p].staging = @ - 1, !.party[p].intervals = @ + 1])
  /\ partyFrame

\* getStats(uid) for every uid of S (the streak penalty of the movement loop reads
\* the live stats of the players, creating them where a reset removed them)
RECURSIVE touchStats(_, _)
touchStats(users, S) ==
  IF S = {} THEN users
  ELSE LET u == CHOOSE x \in S : TRUE IN touchStats(getStats(users, u), S \ {u})

\* an interval of party p fires: one tick callback, to its first await
partyTick(p, allFinish, places, photoFinish, edit) ==
  /\ p \in DOMAIN party
  /\ party[p].intervals > 0
  /\ LET P         == party[p]
         result    == IF P.result # NoResult THEN P.result
                      ELSE IF allFinish THEN [places |-> places, photoFinish |-> photoFinish]
                      ELSE NoResult
         hasPlaces == result # NoResult
         w0        == [World EXCEPT !.party[p].result = result,
                                    !.users = IF P.result = NoResult
                                                THEN touchStats(@, uidsOf(P)) ELSE @]
     IN IF P.finalized THEN Commit(World)
        ELSE IF edit
          THEN /\ P.edits + P.editsP < MaxInFlight
               /\ Commit([w0 EXCEPT !.party[p].edits = IF hasPlaces THEN @ ELSE @ + 1,
                                    !.party[p].editsP = IF hasPlaces THEN @ + 1 ELSE @])
          ELSE Commit(partyAfterEdit(w0, p, hasPlaces))
  /\ partyFrame

\* catch (e) { party.finalized = true; clearInterval(interval);
\* partyByGuild.delete(guild.id); ... } of a party tick
partyCatch(w, p) ==
  [w EXCEPT !.party[p].finalized = TRUE, !.party[p].intervals = @ - 1,
            !.party[p].fin = "fault", !.registry[w.party[p].guild] = 0]

\* an interval of party p fires and the tick callback throws before its first await
partyTickThrows(p) ==
  /\ p \in DOMAIN party
  /\ party[p].intervals > 0
  /\ ~party[p].finalized
  /\ Commit(partyCatch(World, p))
  /\ partyFrame

\* lobbyMsg.edit of a suspended tick callback returns
partyEdited(p, hasPlaces) ==
  /\ p \in DOMAIN party
  /\ IF hasPlaces THEN party[p].editsP > 0 ELSE party[p].edits > 0
  /\ LET w0 == [World EXCEPT !.party[p].edits = IF hasPlaces THEN @ ELSE @ - 1,
                             !.party[p].editsP = IF hasPlaces THEN @ - 1 ELSE @]
     IN Commit(partyAfterEdit(w0, p, hasPlaces))
  /\ partyFrame

\* the results edit and the closing auditLog return: partyByGuild.delete(guild.id)
partyEnded(p) ==
  /\ p \in DOMAIN party
  /\ party[p].fin = "end"
  /\ Commit([World EXCEPT !.party[p].fin = "done", !.registry[party[p].guild] = 0])
  /\ partyFrame

\* PARTY_COOLDOWN_SEC have passed since u's last party race
partyCooldownOver(u) ==
  /\ u \in partyCd
  /\ partyCd' = partyCd \ {u}
  /\ note("")
  /\ UNCHANGED <<settings, tokenDB, statsUsers, seasonNumber, seasonDue, today, soloCd,
                 activeSoloRace, activeSoloRaceByGuild, solo, partyByGuild, party,
                 payoutQueueByGuild, grants>>

---------------------------------------------------------------------------
(* Payout chain steps *)

\* the timer of task k fires and the external call starts whatever the freeze flag
payoutTimerUnfrozen(g, k) ==
  /\ k \in DOMAIN payoutQueueByGuild[g]
  /\ payoutQueueByGuild[g][k].state = "sleeping"
  /\ Commit([World EXCEPT !.queue[g][k].state = "calling"])
  /\ note("")
  /\ UNCHANGED <<settings, today, soloCd>>

\* the 850 ms timer of task k fires: if (settings.freezePayouts) return; else the
\* external call starts
payoutTimer(g, k) ==
  /\ k \in DOMAIN payoutQueueByGuild[g]
  /\ payoutQueueByGuild[g][k].state = "sleeping"
  /\ IF settings.freezePayouts
       THEN Commit(paid([World EXCEPT !.queue[g] = settle(@, k, "skipped")], g, k))
       ELSE Commit([World EXCEPT !.queue[g][k].state = "calling"])
  /\ note("")
  /\ UNCHANGED <<settings, today, soloCd>>

\* kaosAddPoints returns; a send that failed puts the task back to sleep for another try
kaosAddPointsRetried(g, k, ok) ==
  /\ k \in DOMAIN payoutQueueByGuild[g]
  /\ payoutQueueByGuild[g][k].state = "calling"
  /\ IF ok
       THEN Commit(paid([World EXCEPT !.queue[g] = settle(@, k, "sent")], g, k))
       ELSE Commit([World EXCEPT !.queue[g][k].state = "sleeping"])
  /\ note("")
  /\ UNCHANGED <<settings, today, soloCd>>

\* kaosAddPoints returns: the send went through (ok) or was caught
kaosAddPoints(g, k, ok) ==
  /\ k \in DOMAIN payoutQueueByGuild[g]
  /\ payoutQueueByGuild[g][k].state = "calling"
  /\ Commit(paid([World EXCEPT !.queue[g] = settle(@, k, IF ok THEN "sent" ELSE "failed")],
                 g, k))
  /\ note("")
  /\ UNCHANGED <<settings, today, soloCd>>

---------------------------------------------------------------------------
(* Token and admin commands *)

\* /tokens daily
tokensDaily(u) ==
  /\ IF tokenDB[u].lastDaily + 1 - today > 0
       THEN UNCHANGED tokenDB
       ELSE tokenDB' = [tokenDB EXCEPT ![u].tokens = @ + DAILY_TOKENS, ![u].lastDaily = today]
  /\ note("")
  /\ UNCHANGED <<settings, statsUsers, seasonNumber, seasonDue, today, soloCd,
                 activeSoloRace, activeSoloRaceByGuild, solo, partyCd, partyByGuild, party,
                 payoutQueueByGuild, grants>>

\* /tokens transfer to:<to> amount:<amt>
tokensTransfer(u, to, amt) ==
  /\ IF tokenDB[u].tokens < amt
       THEN UNCHANGED tokenDB
       ELSE tokenDB' = [addTokens(tokenDB, to, amt) EXCEPT ![u].tokens = @ - amt]
  /\ note("")
  /\ UNCHANGED <<settings, statsUsers, seasonNumber, seasonDue, today, soloCd,
                 activeSoloRace, activeSoloRaceByGuild, solo, partyCd, partyByGuild, party,
                 payoutQueueByGuild, grants>>

\* /tokens give user:<u> amount:<amt> (admin)
tokensGive(u, amt) ==
  /\ supply(tokenDB, Users) + amt <= MaxTokens
  /\ tokenDB' = addTokens(tokenDB, u, amt)
  /\ note("")
  /\ UNCHANGED <<settings, statsUsers, seasonNumber, seasonDue, today, soloCd,
                 activeSoloRace, activeSoloRaceByGuild, solo, partyCd, partyByGuild, party,
                 payoutQueueByGuild, grants>>

\* /raceadmin freeze-races-on | freeze-races-off
freezeRaces(on) ==
  /\ settings' = [settings EXCEPT !.freezeRaces = on]
  /\ note("")
  /\ UNCHANGED <<tokenDB, statsUsers, seasonNumber, seasonDue, today, soloCd,
                 activeSoloRace, activeSoloRaceByGuild, solo, partyCd, partyByGuild, party,
                 payoutQueueByGuild, grants>>

\* /raceadmin freeze-payouts-on | freeze-payouts-off
freezePayouts(on) ==
  /\ settings' = [settings EXCEPT !.freezePayouts = on]
  /\ note("")
  /\ UNCHANGED <<tokenDB, statsUsers, seasonNumber, seasonDue, today, soloCd,
                 activeSoloRace, activeSoloRaceByGuild, solo, partyCd, partyByGuild, party,
                 payoutQueueByGuild, grants>>

\* /raceadmin season-reset
seasonReset ==
  /\ seasonNumber < MaxSeason
  /\ Commit([World EXCEPT !.users = NoUsers, !.season = @ + 1, !.due = FALSE,
                          !.solo = detach(@, statsUsers)])
  /\ note("")
  /\ UNCHANGED <<settings, today, soloCd>>

\* /racestats
racestats(u) ==
  /\ LET w0 == seasonCheck(World)
     IN Commit([w0 EXCEPT !.users = getStats(@, u)])
  /\ note("")
  /\ UNCHANGED <<settings, today, soloCd>>

\* /top, /topwins
top ==
  /\ Commit(seasonCheck(World))
  /\ note("")
  /\ UNCHANGED <<settings, today, soloCd>>

---------------------------------------------------------------------------
(* Passing of time *)

\* SOLO_COOLDOWN_SEC have passed since u's last solo entry
soloCooldownOver(u) ==
  /\ u \in soloCd
  /\ soloCd' = soloCd \ {u}
  /\ note("")
  /\ UNCHANGED <<settings, tokenDB, statsUsers, seasonNumber, seasonDue, today,
                 activeSoloRace, activeSoloRaceByGuild, solo, partyCd, partyByGuild, party,
                 payoutQueueByGuild, grants>>

\* settings.seasonLengthDays have passed since statsDB.meta.seasonStart
seasonOver ==
  /\ seasonNumber < MaxSeason
  /\ ~seasonDue
  /\ seasonDue' = TRUE
  /\ note("")
  /\ UNCHANGED <<settings, tokenDB, statsUsers, seasonNumber, today, soloCd,
                 activeSoloRace, activeSoloRaceByGuild, solo, partyCd, partyByGuild, party,
                 payoutQueueByGuild, grants>>

\* a day passes (every cooldown is over by then)
nextDay ==
  /\ today < 1 + MaxDay
  /\ today' = today + 1
  /\ soloCd' = {}
  /\ partyCd' = {}
  /\ note("")
  /\ UNCHANGED <<settings, tokenDB, statsUsers, seasonNumber, seasonDue,
                 activeSoloRace, activeSoloRaceByGuild, solo, partyByGuild, party,
                 payoutQueueByGuild, grants>>

---------------------------------------------------------------------------
(* Seeded RNG.  A 32-bit word is <<high 16 bits, low 16 bits>>; rng() returns *)
(* word / 4294967296, so the model keeps the word and compares it with the    *)
(* thresholds scaled by 2^32.                                                 *)

RECURSIVE xorBits(_, _, _)
\* a ^ b on the low n bits
xorBits(a, b, n) ==
  IF n = 0 THEN 0 ELSE ((a + b) % 2) + 2 * xorBits(a \div 2, b \div 2, n - 1)

RECURSIVE orBits(_, _, _)
\* a | b on the low n bits
orBits(a, b, n) ==
  IF n = 0 THEN 0 ELSE Max(a % 2, b % 2) + 2 * orBits(a \div 2, b \div 2, n - 1)

\* a ^ b for bytes, tabulated
xorByte == [a \in 0..255 |-> [b \in 0..255 |-> xorBits(a, b, 8)]]

\* a ^ b for 16-bit halves
xor16(a, b) == xorByte[a % 256][b % 256] + 256 * xorByte[a \div 256][b \div 256]

xor32(x, y) == <<xor16(x[1], y[1]), xor16(x[2], y[2])>>

\* x | k, k < 2^8
or32(x, k) == <<x[1], (x[2] \div 256) * 256 + orBits(x[2] % 256, k, 8)>>

\* x >>> n, 0 < n < 16
shr32(x, n) ==
  LET p == 2^n IN <<x[1] \div p, (x[1] % p) * (65536 \div p) + x[2] \div p>>

\* (x + y) mod 2^32
add32(x, y) ==
  LET lo == x[2] + y[2] IN <<(x[1] + y[1] + lo \div 65536) % 65536, lo % 65536>>

\* Math.imul(x, y): the low 32 bits of the product, by bytes
imul(x, y) ==
  LET a0 == x[2] % 256   a1 == x[2] \div 256   a2 == x[1] % 256   a3 == x[1] \div 256
      b0 == y[2] % 256   b1 == y[2] \div 256   b2 == y[1] % 256   b3 == y[1] \div 256
      c0 == a0 * b0
      c1 == a0 * b1 + a1 * b0 + c0 \div 256
      c2 == a0 * b2 + a1 * b1 + a2 * b0 + c1 \div 256
      c3 == a0 * b3 + a1 * b2 + a2 * b1 + a3 * b0 + c2 \div 256
  IN <<(c2 % 256) + 256 * (c3 % 256), (c0 % 256) + 256 * (c1 % 256)>>

\* x < y
lt32(x, y) == x[1] < y[1] \/ (x[1] = y[1] /\ x[2] < y[2])

\* makeRng(seed): let t = seed >>> 0
makeRng(seed) == <<seed \div 65536, seed % 65536>>

\* return ((x ^ (x >>> 14)) >>> 0) / 4294967296: [t: the new state, r: the word]
rngOut(t, x) == [t |-> t, r |-> xor32(x, shr32(x, 14))]

\* x ^= x + Math.imul(x ^ (x >>> 7), x | 61)
rngMix(t, x) ==
  rngOut(t, xor32(x, add32(x, imul(xor32(x, shr32(x, 7)), or32(x, 61)))))

\* let x = t; x = Math.imul(x ^ (x >>> 15), x | 1)
rngStep(t) == rngMix(t, imul(xor32(t, shr32(t, 15)), or32(t, 1)))

\* rng(): t += 0x6d2b79f5 and the mixing
rng(t) == rngStep(add32(t, <<27947, 31221>>))

\* floor(n * 2^32 / 100000), the probability n / 100000 scaled by 2^32, and
\* whether the division is exact
scaled(n) ==
  LET d1 == (n * 256) \div 100000         r1 == (n * 256) % 100000
      d2 == (r1 * 256) \div 100000        r2 == (r1 * 256) % 100000
      d3 == (r2 * 256) \div 100000        r3 == (r2 * 256) % 100000
      d4 == (r3 * 256) \div 100000        r4 == (r3 * 256) % 100000
  IN [w |-> <<d1 * 256 + d2, d3 * 256 + d4>>, exact |-> r4 = 0]

\* r < n / 100000 for the value r of word u
below(u, n) == lt32(u, scaled(n).w) \/ (u = scaled(n).w /\ ~scaled(n).exact)

\* r > n / 100000 for the value r of word u
above(u, n) == lt32(scaled(n).w, u)

\* the draw d is < n / 100000
drawBelow(d, n) == [t |-> d.t, v |-> below(d.r, n)]

\* `cond && rng() < n / 100000`: rng is called only if cond holds
chanceIf(cond, t, n) ==
  IF cond THEN drawBelow(rng(t), n) ELSE [t |-> t, v |-> FALSE]

---------------------------------------------------------------------------
(* Movement and house edge.  The helpers take the state t of rng and return *)
(* [t: the state after their draws, v: their result].                       *)

TRACK_LEN == 18

\* the base step for the draw d
baseStepOf(d) ==
  [t |-> d.t,
   v |-> IF above(d.r, 99200) THEN 3
         ELSE IF above(d.r, 93000) THEN 2
         ELSE IF above(d.r, 58000) THEN 1
         ELSE 0]

rollBaseStep(t) == baseStepOf(rng(t))

\* the kind of the event for the draw d, "null" for none
eventOf(d) ==
  [t |-> d.t,
   v |-> IF below(d.r, 6000) THEN "BOOST"
         ELSE IF below(d.r, 10000) THEN "STALL"
         ELSE "null"]

maybeEvent(t) == eventOf(rng(t))

\* v += delta if the chance c came true
bump(v, c, delta) == [t |-> c.t, v |-> IF c.v THEN v + delta ELSE v]

\* if (cond && rng() < n / 100000) drag += delta
dragIf(a, cond, n, delta) == bump(a.v, chanceIf(cond, a.t, n), delta)

houseEdgeModifier(rankIndex, total, tierKey, t) ==
  LET strength == IF tierKey = "high" THEN 100 ELSE IF tierKey = "standard" THEN 70 ELSE 55
  IN dragIf(dragIf(dragIf(dragIf([t |-> t, v |-> 0],
                                 rankIndex = 0, 550 * strength, 0 - 1),
                          rankIndex = 1, 250 * strength, 0 - 1),
                   rankIndex >= total - 2, 450 * strength, 1),
            rankIndex >= total - 1, 650 * strength, 1)

streakPenalty(winStreak, tierKey, t) ==
  LET mult   == IF tierKey = "high" THEN 115 ELSE IF tierKey = "standard" THEN 100 ELSE 85
      chance == (Min(22000, 8000 + winStreak * 4500) * mult) \div 100
  IN bump(0, chanceIf(winStreak > 0, t, chance), 0 - 1)

finalSprintBoost(pos, t) == bump(0, chanceIf(pos >= TRACK_LEN - 5, t, 18000), 1)

\* a step that is not clamped
clampStepNone(step) == step

\* step = Math.max(0, Math.min(3, step))
clampStep(step) == Max(0, Min(3, step))

\* Array.prototype.sort (stable) of the index sequence ix, with the comparator
\* given as the table cmp[<<i, j>>] of its results on racers i and j: the last
\* index is put behind the sorted others that do not come after it
RECURSIVE sortRacers(_, _)
sortRacers(cmp, ix) ==
  IF ix = << >> THEN << >>
  ELSE LET rest == sortRacers(cmp, SubSeq(ix, 1, Len(ix) - 1))
           x    == ix[Len(ix)]
           n    == Cardinality({k \in DOMAIN rest : cmp[<<rest[k], x>>] <= 0})
       IN SubSeq(rest, 1, n) \o <<x>> \o SubSeq(rest, n + 1, Len(rest))

\* COLOURS.map((c) => ({ ...c, pos: 0, finished: false, finishTick: null }))
newRacers == [i \in DOMAIN COLOURS |-> [pos |-> 0, finished |-> FALSE, finishTick |-> 0]]

\* the state of one run of the tick loop: the closure variables of a race
\*   kind      "solo" or "party"
\*   backed    colour key -> the stats object of the player who backs it
\*   t         the state of rng
\*   late      interval callbacks that ran after the one that found everyone finished
\*   changes   history: finalizations of other races of the backing players
newRun(kind, seed, tierKey, backed) ==
  [kind |-> kind, seed |-> seed, tierKey |-> tierKey, backed |-> backed,
   t |-> makeRng(seed), tick |-> 0, racers |-> newRacers, finishedCount |-> 0,
   places |-> << >>, photoFinish |-> FALSE, finalized |-> FALSE, late |-> 0,
   changes |-> 0]

\* a streak penalty that reads the best streak of the backing player
penaltyForBest(run, key, t) ==
  IF key \in DOMAIN run.backed
    THEN streakPenalty(run.backed[key].bestWinStreak, run.tierKey, t)
    ELSE [t |-> t, v |-> 0]

\* the streak penalty of the racer `key`: only for a colour a player backs, with
\* the winStreak that player's stats object holds at this tick
penaltyFor(run, key, t) ==
  IF key \in DOMAIN run.backed
    THEN streakPenalty(run.backed[key].winStreak, run.tierKey, t)
    ELSE [t |-> t, v |-> 0]

\* step += x.v, with the rng state x.t
plus(step, x) == [t |-> x.t, v |-> step + x.v]

\* if (ev?.kind === "BOOST") step += 1; if (ev?.kind === "STALL") step = max(0, step - 1)
withEvent(step, ev) ==
  [t |-> ev.t,
   v |-> IF ev.v = "BOOST" THEN step + 1
         ELSE IF ev.v = "STALL" THEN Max(0, step - 1)
         ELSE step]

\* the unclamped step of the racer `key` at pos with rank rk, drawn from state t
stepOf(run, key, pos, rk, t) ==
  LET a1 == rollBaseStep(t)
      a2 == withEvent(a1.v, maybeEvent(a1.t))
      a3 == plus(a2.v, houseEdgeModifier(rk, Len(COLOURS), run.tierKey, a2.t))
      a4 == plus(a3.v, finalSprintBoost(pos, a3.t))
  IN plus(a4.v, penaltyFor(run, key, a4.t))

\* r.pos += step and the finish test, for the racer r and the clamped step
land(r, step, tick) ==
  IF r.pos + step >= TRACK_LEN
    THEN [pos |-> TRACK_LEN - 1, finished |-> TRUE, finishTick |-> tick]
    ELSE [r EXCEPT !.pos = @ + step]

\* the loop body for racer i with the step a drawn for it; m = [t, racers, finishedCount]
moveRacer(run, m, i, a) ==
  [t             |-> a.t,
   racers        |-> [m.racers EXCEPT ![i] = land(@, clampStep(a.v), run.tick + 1)],
   finishedCount |-> m.finishedCount
                       + IF m.racers[i].pos + clampStep(a.v) >= TRACK_LEN THEN 1 ELSE 0]

\* for (const r of racers) { if (r.finished) continue; ... } from racer i on
RECURSIVE moveRacers(_, _, _, _)
moveRacers(run, m, rankIndex, i) ==
  IF i > Len(COLOURS) THEN m
  ELSE IF m.racers[i].finished THEN moveRacers(run, m, rankIndex, i + 1)
  ELSE moveRacers(run,
                  moveRacer(run, m, i,
                            stepOf(run, COLOURS[i], m.racers[i].pos, rankIndex[i], m.t)),
                  rankIndex, i + 1)

\* a placement sort that visits the racers last-defined first, so that racers who
\* compare equal come out in reverse definition order
placesOfLastFirst(racers) ==
  sortRacers([x \in (DOMAIN racers) \X (DOMAIN racers) |->
                IF racers[x[1]].finishTick # racers[x[2]].finishTick
                  THEN racers[x[1]].finishTick - racers[x[2]].finishTick
                  ELSE racers[x[2]].pos - racers[x[1]].pos],
             [i \in DOMAIN racers |-> Len(racers) + 1 - i])

\* places = racers.slice().sort((a, b) => a.finishTick - b.finishTick || b.pos - a.pos)
placesOf(racers) ==
  sortRacers([x \in (DOMAIN racers) \X (DOMAIN racers) |->
                IF racers[x[1]].finishTick # racers[x[2]].finishTick
                  THEN racers[x[1]].finishTick - racers[x[2]].finishTick
                  ELSE racers[x[2]].pos - racers[x[1]].pos],
             [i \in DOMAIN racers |-> i])

\* order = racers.slice().sort((a, b) => b.pos - a.pos)
orderOf(racers) ==
  sortRacers([x \in (DOMAIN racers) \X (DOMAIN racers) |->
                racers[x[2]].pos - racers[x[1]].pos],
             [i \in DOMAIN racers |-> i])

\* rankMap: racer -> its index in `order`
rankMapOf(order) ==
  [i \in DOMAIN COLOURS |-> (CHOOSE k \in DOMAIN order : order[k] = i) - 1]

\* commentary = rng() < 0.18 ? rand(COMMENTARY, rng) : null   (party: 0.2)
commentary(kind, c) ==
  IF below(c.r, IF kind = "solo" THEN 18000 ELSE 20000) THEN rng(c.t).t ELSE c.t

\* the run after the movement loop left m, with `places` in the order `sorted`
afterMove(run, m, sorted) ==
  [run EXCEPT !.t = m.t, !.tick = @ + 1, !.racers = m.racers,
              !.late = IF run.places # << >> THEN @ + 1 ELSE @,
              !.finishedCount = m.finishedCount,
              !.places = [k \in DOMAIN sorted |-> COLOURS[sorted[k]]],
              !.photoFinish = /\ sorted # << >>
                              /\ m.racers[sorted[1]].finishTick
                                   = m.racers[sorted[2]].finishTick]

\* let places = []; if (finishedCount === racers.length) places = ...
withPlaces(run, m) ==
  afterMove(run, m,
            IF m.finishedCount = Len(COLOURS) THEN placesOf(m.racers) ELSE << >>)

\* one interval callback from tick++ to the computation of `places`
moveTick(run) ==
  withPlaces(run,
             moveRacers(run,
                        [t |-> commentary(run.kind, rng(run.t)), racers |-> run.racers,
                         finishedCount |-> run.finishedCount],
                        rankMapOf(orderOf(run.racers)), 1))

\* what a step of the compared runs leaves alone
raceFrame ==
  <<settings, tokenDB, statsUsers, seasonNumber, seasonDue, today, soloCd,
    activeSoloRace, activeSoloRaceByGuild, solo, partyCd, partyByGuild, party,
    payoutQueueByGuild, grants, last>>

\* may the interval of run r fire again: the latch is not set, and the callback
\* that found everyone finished is still suspended on its edit
ticking(r) == ~r.finalized /\ r.tick < MaxTick /\ r.late < MaxInFlight - 1

\* the interval of the runs fires: every run makes its next tick
raceTick ==
  /\ \E k \in DOMAIN race : ticking(race[k])
  /\ race' = [k \in DOMAIN race |->
                IF ticking(race[k]) THEN moveTick(race[k]) ELSE race[k]]
  /\ UNCHANGED <<raceFrame, edge>>

\* a tick that found every racer finished sets the latch and clears the interval
raceFinalize ==
  /\ \E k \in DOMAIN race : race[k].places # << >> /\ ~race[k].finalized
  /\ race' = [k \in DOMAIN race |->
                IF race[k].places # << >> THEN [race[k] EXCEPT !.finalized = TRUE]
                ELSE race[k]]
  /\ UNCHANGED <<raceFrame, edge>>

\* another race of the player who backs colour c finalizes between two ticks: the
\* player's winStreak goes to 0 (lost) or up by one (won), in the stats object
\* every run reads
streakChanges(c, won) ==
  /\ race # << >>
  /\ \A k \in DOMAIN race :
       c \in DOMAIN race[k].backed /\ race[k].tick > 0 /\ race[k].places = << >>
  /\ \E k \in DOMAIN race : race[k].changes < MaxStreakChanges
  /\ won => \A k \in DOMAIN race : race[k].backed[c].winStreak < MaxStreak
  /\ race' = [k \in DOMAIN race |->
                [race[k] EXCEPT
                   !.changes = @ + 1,
                   !.backed[c] = IF won THEN updateStats(@, 1, PayoutOf("low", 1))
                                        ELSE updateStats(@, 2, PayoutOf("low", 2))]]
  /\ UNCHANGED <<raceFrame, edge>>

---------------------------------------------------------------------------
(* Specifications *)

\* the state after start-up with the given balances in tokens.json
InitBot(tokens, history, payoutsFrozen) ==
  /\ settings = [freezeRaces |-> FALSE, freezePayouts |-> payoutsFrozen]
  /\ tokenDB = [u \in Users |-> [tokens |-> tokens, lastDaily |-> 0]]
  /\ statsUsers = NoUsers
  /\ seasonNumber = 1
  /\ seasonDue = FALSE
  /\ today = 1
  /\ soloCd = {}
  /\ activeSoloRace = {}
  /\ activeSoloRaceByGuild = [g \in Guilds |-> 0]
  /\ solo = << >>
  /\ partyCd = {}
  /\ partyByGuild = [g \in Guilds |-> 0]
  /\ party = << >>
  /\ payoutQueueByGuild = [g \in Guilds |-> << >>]
  /\ grants = [x \in Users \X AchKeys |-> << >>]
  /\ last = history

\* no run of the tick loop is under comparison
InitWith(tokens, history, payoutsFrozen) ==
  /\ InitBot(tokens, history, payoutsFrozen)
  /\ race = << >>
  /\ edge = << >>

Races == 1..MaxSolo

Parties == 1..MaxParty

\* positions in a payout chain: one per solo race, one per party member
Tasks == 1..(MaxSolo + MaxParty * Cardinality(Users))

(* Payout chain: two players race in one guild, payouts may be frozen *)
InitPayout == InitWith(StartTokens, "off", FALSE)

NextPayout ==
  \/ \E g \in Guilds, u \in Users : runSoloRace(g, u, "red", "low")
  \/ \E i \in Races : soloLaunch(i)
  \/ \E i \in Races, fin \in BOOLEAN, e \in BOOLEAN :
        soloTick(i, fin, COLOURS, FALSE, e)
  \/ \E i \in Races, hp \in BOOLEAN : soloEdited(i, hp)
  \/ \E i \in Races : soloReplied(i)
  \/ \E g \in Guilds, k \in Tasks : payoutTimer(g, k)
  \/ \E g \in Guilds, k \in Tasks, ok \in BOOLEAN : kaosAddPoints(g, k, ok)
  \/ \E on \in BOOLEAN : freezePayouts(on)
  \/ \E u \in Users : soloCooldownOver(u)

SpecPayout == InitPayout /\ [][NextPayout]_vars

(* Payout chain under fair scheduling: two solo races in one guild; every 850 ms   *)
(* timer fires and every external call returns or fails (the event loop runs a due *)
(* timer, and kaosAddPoints swallows the rejection of its send)                    *)
NextQueue ==
  \/ \E g \in Guilds, u \in Users : runSoloRace(g, u, "red", "low")
  \/ \E i \in Races : soloLaunch(i)
  \/ \E i \in Races : soloTick(i, TRUE, COLOURS, FALSE, FALSE)
  \/ \E i \in Races : soloReplied(i)
  \/ \E g \in Guilds, k \in Tasks : payoutTimer(g, k)
  \/ \E g \in Guilds, k \in Tasks, ok \in BOOLEAN : kaosAddPoints(g, k, ok)
  \/ \E on \in BOOLEAN : freezePayouts(on)

SpecQueue ==
  /\ InitPayout
  /\ [][NextQueue]_vars
  /\ \A g \in Guilds, k \in Tasks :
       /\ WF_vars(payoutTimer(g, k))
       /\ WF_vars(\E ok \in BOOLEAN : kaosAddPoints(g, k, ok))

(* Solo races whose messaging calls may fail, under fair scheduling: every awaited *)
(* Discord call settles, every due timer fires, and a running race reaches the     *)
(* tick that brings the last racer home                                          *)
soloProgress ==
  \/ \E i \in Races : soloLaunch(i)
  \/ \E i \in Races : soloLaunchFails(i)
  \/ \E i \in Races, e \in BOOLEAN : soloTick(i, TRUE, COLOURS, FALSE, e)
  \/ \E i \in Races, hp \in BOOLEAN : soloEdited(i, hp)
  \/ \E i \in Races : soloReplied(i)
  \/ \E g \in Guilds, k \in Tasks : payoutTimer(g, k)
  \/ \E g \in Guilds, k \in Tasks, ok \in BOOLEAN : kaosAddPoints(g, k, ok)

NextLaunch ==
  \/ \E g \in Guilds, u \in Users : runSoloRace(g, u, "red", "low")
  \/ soloProgress
  \/ \E u \in Users : soloCooldownOver(u)

SpecLaunch == InitPayout /\ [][NextLaunch]_vars /\ WF_vars(soloProgress)

\* the host sends /raceparty start once, to a lobby nothing else is starting
hostStart(g, u) ==
  /\ partyByGuild[g] # 0
  /\ party[partyByGuild[g]].state = "LOBBY"
  /\ inFlight(party[partyByGuild[g]]) = 0
  /\ racepartyStart(g, u)

(* Finalization latch: solo races and a party race whose ticks overlap their edits *)
InitLatch == InitWith(StartTokens, "off", FALSE)

NextLatch ==
  \/ \E g \in Guilds : runSoloRace(g, "u1", "red", "low")
  \/ \E i \in Races : soloLaunch(i)
  \/ \E i \in Races, fin \in BOOLEAN, e \in BOOLEAN :
        soloTick(i, fin, COLOURS, FALSE, e)
  \/ \E i \in Races, hp \in BOOLEAN : soloEdited(i, hp)
  \/ \E i \in Races : soloReplied(i)
  \/ \E g \in Guilds : racepartyCreate(g, "u1", "low", "red")
  \/ \E p \in Parties : racepartyPosted(p)
  \/ \E g \in Guilds : racepartyJoin(g, "u2", "blue")
  \/ \E g \in Guilds : hostStart(g, "u1")
  \/ \E p \in Parties : partyStartReplied(p)
  \/ \E p \in Parties : partyAudited(p)
  \/ \E p \in Parties : partyStaged(p)
  \/ \E p \in Parties, fin \in BOOLEAN, e \in BOOLEAN :
        partyTick(p, fin, COLOURS, FALSE, e)
  \/ \E p \in Parties, hp \in BOOLEAN : partyEdited(p, hp)
  \/ \E p \in Parties : partyEnded(p)
  \/ \E g \in Guilds, k \in Tasks : payoutTimer(g, k)
  \/ \E g \in Guilds, k \in Tasks : kaosAddPoints(g, k, TRUE)

SpecLatch == InitLatch /\ [][NextLatch]_vars

(* Faults and lobby commands: a solo race and a party race that the host starts   *)
(* once; a tick may throw, members may send /raceparty leave and cancel any time *)
InitFault == InitWith(StartTokens, "off", FALSE)

NextFault ==
  \/ \E g \in Guilds : runSoloRace(g, "u1", "red", "low")
  \/ \E i \in Races : soloLaunch(i)
  \/ \E i \in Races, fin \in BOOLEAN, e \in BOOLEAN :
        soloTick(i, fin, COLOURS, FALSE, e)
  \/ \E i \in Races : soloTickThrows(i)
  \/ \E i \in Races, hp \in BOOLEAN : soloEdited(i, hp)
  \/ \E i \in Races : soloReplied(i)
  \/ \E g \in Guilds : racepartyCreate(g, "u1", "low", "red")
  \/ \E p \in Parties : racepartyPosted(p)
  \/ \E g \in Guilds : racepartyJoin(g, "u2", "blue")
  \/ \E g \in Guilds, u \in Users : racepartyLeave(g, u)
  \/ \E g \in Guilds, u \in Users : racepartyCancel(g, u)
  \/ \E p \in Parties : partyCancelled(p)
  \/ \E g \in Guilds : hostStart(g, "u1")
  \/ \E p \in Parties : partyStartReplied(p)
  \/ \E p \in Parties : partyAudited(p)
  \/ \E p \in Parties : partyStaged(p)
  \/ \E p \in Parties, fin \in BOOLEAN, e \in BOOLEAN :
        partyTick(p, fin, COLOURS, FALSE, e)
  \/ \E p \in Parties : partyTickThrows(p)
  \/ \E p \in Parties, hp \in BOOLEAN : partyEdited(p, hp)
  \/ \E p \in Parties : partyEnded(p)
  \/ \E g \in Guilds, k \in Tasks : payoutTimer(g, k)
  \/ \E g \in Guilds, k \in Tasks : kaosAddPoints(g, k, TRUE)

SpecFault == InitFault /\ [][NextFault]_vars

(* Token balances: a solo entry, a party, transfers, daily claims, gifts, a reset; *)
(* the bot was started with payouts frozen                                       *)
InitTokens == InitWith(StartTokens, "off", TRUE)

NextTokens ==
  \/ \E g \in Guilds : runSoloRace(g, "u2", "red", "high")
  \/ \E i \in Races : soloLaunch(i)
  \/ \E i \in Races : soloTick(i, TRUE, COLOURS, FALSE, FALSE)
  \/ \E i \in Races : soloReplied(i)
  \/ \E g \in Guilds : racepartyCreate(g, "u1", "standard", "red")
  \/ \E p \in Parties : racepartyPosted(p)
  \/ \E g \in Guilds : racepartyJoin(g, "u2", "blue")
  \/ \E g \in Guilds : hostStart(g, "u1")
  \/ \E p \in Parties : partyCancelled(p)
  \/ \E p \in Parties : partyStartReplied(p)
  \/ \E p \in Parties : partyAudited(p)
  \/ \E p \in Parties : partyStaged(p)
  \/ \E p \in Parties : partyTick(p, TRUE, COLOURS, FALSE, FALSE)
  \/ \E p \in Parties : partyEnded(p)
  \/ \E u \in Users, to \in Users : u # to /\ tokensTransfer(u, to, 2)
  \/ \E u \in Users : tokensDaily(u)
  \/ tokensGive("u1", 1)
  \/ seasonReset

SpecTokens == InitTokens /\ [][NextTokens]_vars

(* Solo entries: accepted and rejected ones, with the outcome of the last one kept *)
InitEntry == InitWith(StartTokens, "", FALSE)

NextEntry ==
  \/ \E g \in Guilds, u \in Users : runSoloRace(g, u, "red", "high")
  \/ \E i \in Races : soloLaunch(i)
  \/ \E i \in Races : soloTick(i, TRUE, COLOURS, FALSE, FALSE)
  \/ \E i \in Races : soloReplied(i)
  \/ \E g \in Guilds, k \in Tasks : payoutTimer(g, k)
  \/ \E g \in Guilds, k \in Tasks : kaosAddPoints(g, k, TRUE)
  \/ \E on \in BOOLEAN : freezeRaces(on)
  \/ seasonOver
  \/ \E u \in Users : soloCooldownOver(u)
  \/ nextDay

SpecEntry == InitEntry /\ [][NextEntry]_vars

(* Party lobby: two players, one lobby, its starts and its race *)
InitParty == InitWith(StartTokens, "off", FALSE)

NextParty ==
  \/ \E g \in Guilds : racepartyCreate(g, "u1", "low", "red")
  \/ \E p \in Parties : racepartyPosted(p)
  \/ \E p \in Parties : autoStart(p)
  \/ \E g \in Guilds : racepartyJoin(g, "u2", "blue")
  \/ \E g \in Guilds, u \in Users : racepartyLeave(g, u)
  \/ \E g \in Guilds, u \in Users : racepartyCancel(g, u)
  \/ \E p \in Parties : partyCancelled(p)
  \/ \E g \in Guilds, u \in Users : racepartyStart(g, u)
  \/ \E p \in Parties : partyStartReplied(p)
  \/ \E p \in Parties : partyAudited(p)
  \/ \E p \in Parties : partyStaged(p)
  \/ \E p \in Parties, fin \in BOOLEAN, e \in BOOLEAN :
        partyTick(p, fin, COLOURS, FALSE, e)
  \/ \E p \in Parties, hp \in BOOLEAN : partyEdited(p, hp)
  \/ \E p \in Parties : partyEnded(p)
  \/ \E g \in Guilds, k \in Tasks : payoutTimer(g, k)
  \/ \E g \in Guilds, k \in Tasks, ok \in BOOLEAN : kaosAddPoints(g, k, ok)
  \/ \E u \in Users : partyCooldownOver(u)

SpecParty == InitParty /\ [][NextParty]_vars

(* Seasons: solo races, their payouts, and season resets of both kinds *)
InitSeason == InitWith(StartTokens, "off", FALSE)

NextSeason ==
  \/ \E g \in Guilds, u \in Users : runSoloRace(g, u, "red", "low")
  \/ \E i \in Races : soloLaunch(i)
  \/ \E i \in Races, places \in FinishOrders, photo \in BOOLEAN :
        soloTick(i, TRUE, places, photo, FALSE)
  \/ \E i \in Races : soloReplied(i)
  \/ \E g \in Guilds, k \in Tasks : payoutTimer(g, k)
  \/ \E g \in Guilds, k \in Tasks : kaosAddPoints(g, k, TRUE)
  \/ seasonReset
  \/ seasonOver
  \/ top
  \/ \E u \in Users : racestats(u)
  \/ \E u \in Users : soloCooldownOver(u)

SpecSeason == InitSeason /\ [][NextSeason]_vars

(* Movement: two runs of the tick loop with the same seed, tier, backed colours *)
(* and win streaks, whose backing players differ in the rest of their stats     *)
\* seeds newSeed() can return (1 .. 2147483646) that the model runs
Seeds == {6, 2147483646}

\* the stats object of a player after solo races of tier low that ended for the
\* player in the given places, none of them a photo finish (655-660, 808-846)
RECURSIVE statsAfter(_)
statsAfter(placesSeq) ==
  IF placesSeq = << >> THEN newUserStats
  ELSE LET n         == Len(placesSeq)
           truePlace == placesSeq[n]
           before    == statsAfter(SubSeq(placesSeq, 1, n - 1))
           st        == updateStats([before EXCEPT !.races = @ + 1], truePlace,
                                    PayoutOf("low", truePlace))
       IN [st EXCEPT !.achievements =
             @ \cup (IF st.races = 1 THEN {"first_race"} ELSE {})
               \cup (IF truePlace = 1 THEN {"first_win"} ELSE {})
               \cup (IF st.winStreak >= 3 THEN {"streak_3"} ELSE {})
               \cup (IF st.podiums >= 5 THEN {"podium_5"} ELSE {})]

\* the stats object of a player on a streak of ws wins; with lost > 0 the streak
\* follows an earlier, longer streak of ws + lost wins and `lost` races ended fourth
statsOnStreak(ws, lost) ==
  statsAfter((IF lost = 0 THEN << >>
              ELSE [i \in 1..(ws + lost) |-> 1] \o [i \in 1..lost |-> 4])
             \o [i \in 1..ws |-> 1])

InitMove ==
  /\ InitBot(StartTokens, "off", FALSE)
  /\ edge = << >>
  /\ \E seed \in Seeds, tierKey \in TierKeys, ws \in 0..1,
        cfg \in {<<"solo", {"red"}>>, <<"party", {"red", "blue"}>>} :
        race = [k \in 1..2 |->
                  newRun(cfg[1], seed, tierKey,
                         [c \in cfg[2] |-> statsOnStreak(ws, k - 1)])]

NextMove ==
  \/ raceTick
  \/ raceFinalize
  \/ \E won \in BOOLEAN : streakChanges("red", won)

SpecMove == InitMove /\ [][NextMove]_vars

(* houseEdgeModifier on its own: the rng of a race, seeded, is handed to a series *)
(* of calls with any rank and tier; racers.length is always COLOURS.length      *)
InitEdge ==
  /\ InitBot(StartTokens, "off", FALSE)
  /\ race = << >>
  /\ \E seed \in Seeds :
       edge = [t |-> makeRng(seed), rankIndex |-> 0, tierKey |-> "low", drag |-> 0,
               calls |-> 0]

\* step += houseEdgeModifier(rk, racers.length, tier.key, rng)
houseEdge(rankIndex, tierKey) ==
  /\ edge.calls < MaxCalls
  /\ LET a == houseEdgeModifier(rankIndex, Len(COLOURS), tierKey, edge.t)
     IN edge' = [t |-> a.t, rankIndex |-> rankIndex, tierKey |-> tierKey, drag |-> a.v,
                 calls |-> edge.calls + 1]
  /\ UNCHANGED <<raceFrame, race>>

NextEdge == \E rankIndex \in 0..(Len(COLOURS) - 1), tierKey \in TierKeys :
              houseEdge(rankIndex, tierKey)

SpecEdge == InitEdge /\ [][NextEdge]_vars

(* Party start: a lobby of two whose members may have raced before and may give  *)
(* tokens away between joining and the start; the season may run out; the bot  *)
(* was started with payouts frozen                                              *)
InitStart ==
  /\ settings = [freezeRaces |-> FALSE, freezePayouts |-> TRUE]
  /\ tokenDB = [u \in Users |-> [tokens |-> StartTokens, lastDaily |-> 0]]
  /\ \E raced \in SUBSET Users : statsUsers = [u \in raced |-> statsAfter(<<4>>)]
  /\ seasonNumber = 1
  /\ seasonDue = FALSE
  /\ today = 1
  /\ soloCd = {}
  /\ activeSoloRace = {}
  /\ activeSoloRaceByGuild = [g \in Guilds |-> 0]
  /\ solo = << >>
  /\ partyCd = {}
  /\ partyByGuild = [g \in Guilds |-> 0]
  /\ party = << >>
  /\ payoutQueueByGuild = [g \in Guilds |-> << >>]
  /\ grants = [x \in Users \X AchKeys |-> << >>]
  /\ last = "off"
  /\ race = << >>
  /\ edge = << >>

NextStart ==
  \/ \E g \in Guilds : racepartyCreate(g, "u1", "standard", "red")
  \/ \E p \in Parties : racepartyPosted(p)
  \/ \E g \in Guilds : racepartyJoin(g, "u2", "blue")
  \/ \E g \in Guilds : hostStart(g, "u1")
  \/ \E p \in Parties : partyCancelled(p)
  \/ \E p \in Parties : partyStartReplied(p)
  \/ \E p \in Parties : partyAudited(p)
  \/ \E p \in Parties : partyStaged(p)
  \/ \E p \in Parties : partyTick(p, TRUE, COLOURS, FALSE, FALSE)
  \/ \E p \in Parties : partyEnded(p)
  \/ \E u \in Users, to \in Users : u # to /\ tokensTransfer(u, to, 2)
  \/ seasonOver

SpecStart == InitStart /\ [][NextStart]_vars

(* One player racing again and again: the ticks of a race may overlap their edits, *)
(* the cooldown runs out between races; the bot was started with payouts frozen   *)
InitGuard == InitWith(StartTokens, "off", TRUE)

NextGuard ==
  \/ \E g \in Guilds : runSoloRaceUpTo(MaxSoloLong, g, "u1", "red", "low")
  \/ \E i \in 1..MaxSoloLong : soloLaunch(i)
  \/ \E i \in 1..MaxSoloLong, fin \in BOOLEAN, e \in BOOLEAN :
        soloTick(i, fin, COLOURS, FALSE, e)
  \/ \E i \in 1..MaxSoloLong, hp \in BOOLEAN : soloEdited(i, hp)
  \/ \E i \in 1..MaxSoloLong : soloReplied(i)
  \/ soloCooldownOver("u1")

SpecGuard == InitGuard /\ [][NextGuard]_vars

(* Lobby left to its timer, under fair scheduling: nobody sends /raceparty start,  *)
(* leave or cancel; an admin may freeze and unfreeze races.  For a lobby, every   *)
(* awaited call returns and the armed 60 s timer fires                           *)
lobbyProgress ==
  \/ \E p \in Parties : racepartyPosted(p)
  \/ \E p \in Parties : autoStart(p)
  \/ \E p \in Parties : partyCancelled(p)
  \/ \E p \in Parties : partyAudited(p)

NextLobby ==
  \/ \E g \in Guilds : racepartyCreate(g, "u1", "low", "red")
  \/ \E g \in Guilds : racepartyJoin(g, "u2", "blue")
  \/ \E on \in BOOLEAN : freezeRaces(on)
  \/ lobbyProgress
  \/ \E p \in Parties : partyStaged(p)
  \/ \E p \in Parties, fin \in BOOLEAN, e \in BOOLEAN :
        partyTick(p, fin, COLOURS, FALSE, e)
  \/ \E p \in Parties, hp \in BOOLEAN : partyEdited(p, hp)
  \/ \E p \in Parties : partyEnded(p)
  \/ \E g \in Guilds, k \in Tasks : payoutTimer(g, k)
  \/ \E g \in Guilds, k \in Tasks, ok \in BOOLEAN : kaosAddPoints(g, k, ok)

SpecLobby == InitParty /\ [][NextLobby]_vars /\ WF_vars(lobbyProgress)

(* Registry of a guild: lobbies created one after the other by a host who may    *)
(* cancel at any time; a tick may throw; the bot was started with payouts frozen *)
InitRegistry == InitWith(StartTokens, "off", TRUE)

NextRegistry ==
  \/ \E g \in Guilds : racepartyCreateUpTo(MaxPartyLong, g, "u1", "low", "red")
  \/ \E p \in 1..MaxPartyLong : racepartyPosted(p)
  \/ \E g \in Guilds : racepartyJoin(g, "u2", "blue")
  \/ \E g \in Guilds : hostStart(g, "u1")
  \/ \E g \in Guilds : racepartyCancel(g, "u1")
  \/ \E p \in 1..MaxPartyLong : partyCancelled(p)
  \/ \E p \in 1..MaxPartyLong : partyStartReplied(p)
  \/ \E p \in 1..MaxPartyLong : partyAudited(p)
  \/ \E p \in 1..MaxPartyLong : partyStaged(p)
  \/ \E p \in 1..MaxPartyLong : partyTick(p, TRUE, COLOURS, FALSE, FALSE)
  \/ \E p \in 1..MaxPartyLong : partyTickThrows(p)
  \/ \E p \in 1..MaxPartyLong : partyEnded(p)
  \/ \E u \in Users : partyCooldownOver(u)

SpecRegistry == InitRegistry /\ [][NextRegistry]_vars

---------------------------------------------------------------------------
(* Claims *)

\* C1: in every guild's payout chain, when the external credit call of a task has
\* begun (it is calling, or has been sent or has failed), every task enqueued before
\* it has settled (sent, failed or skipped).
PayoutOrder ==
  \A g \in Guilds : \A j, k \in DOMAIN payoutQueueByGuild[g] :
    (j < k /\ payoutQueueByGuild[g][k].state \in {"calling", "sent", "failed"})
      => Settled(payoutQueueByGuild[g][j])

\* a task that was enqueued behind an unsettled one is in its external call, after
\* its predecessor's call went through
PayoutOrderWitness ==
  \E g \in Guilds :
    /\ Len(payoutQueueByGuild[g]) >= 2
    /\ payoutQueueByGuild[g][1].state = "sent"
    /\ payoutQueueByGuild[g][2].state = "calling"
    /\ payoutQueueByGuild[g][2].waited

\* C2: the finalization block of a race runs at most once, and it has run exactly
\* once when a tick has found every racer finished and no tick that found them
\* finished is still suspended on its message edit (solo races and party races).
FinalizedOnce ==
  /\ \A i \in DOMAIN solo :
       /\ solo[i].finalCount <= 1
       /\ (solo[i].result # NoResult /\ solo[i].editsP = 0) => solo[i].finalCount = 1
       /\ finishedClosure(solo[i]) => solo[i].finalCount = 1
  /\ \A p \in DOMAIN party :
       /\ party[p].finalCount <= 1
       /\ (party[p].result # NoResult /\ party[p].editsP = 0) => party[p].finalCount = 1
       /\ party[p].fin = "done" => party[p].finalCount = 1

\* a solo race and a party race are finalized while a tick of each that saw the
\* finish is still suspended on its edit
FinalizedOnceWitness ==
  /\ \E i \in DOMAIN solo : solo[i].finalCount = 1 /\ solo[i].editsP > 0
  /\ \E p \in DOMAIN party : party[p].finalCount = 1 /\ party[p].editsP > 0

\* C3: every accepted entry is debited once: a solo entry when it is accepted, a
\* party member once however many starts of the lobby overlap.
DebitedOnce ==
  /\ \A i \in DOMAIN solo : solo[i].debits = 1
  /\ \A p \in DOMAIN party : \A u \in Users : party[p].debits[u] <= 1

\* C4: every token balance is >= 0 in every reachable state.
TokensNonNegative == \A u \in Users : tokenDB[u].tokens >= 0

\* a member of a lobby whose start is waiting for its audit call has spent the
\* last tokens on a solo entry
TokensNonNegativeWitness ==
  \E u \in Users :
    /\ tokenDB[u].tokens = 0
    /\ \E i \in DOMAIN solo : solo[i].user = u
    /\ \E p \in DOMAIN party : party[p].audits > 0 /\ u \in uidsOf(party[p])

\* C5: a step that finalizes a solo race leaves the entrant's persisted winStreak
\* at 0 if the backed colour was not 1st, and at one more than it was if it was 1st.
StreakAfterFinalization ==
  [][\A i \in DOMAIN solo :
       solo'[i].finalCount = solo[i].finalCount + 1 =>
         LET u         == solo[i].user
             truePlace == placeOf(solo'[i].result.places, solo[i].bet)
         IN StatsOf(statsUsers', u).winStreak =
              IF truePlace = 1 THEN StatsOf(statsUsers, u).winStreak + 1 ELSE 0]_vars

\* C6 (as amended): no step that leaves the season number alone decreases a
\* player's persisted bestWinStreak.
BestStreakMonotoneInSeason ==
  [][seasonNumber' = seasonNumber =>
       \A u \in Users : StatsOf(statsUsers', u).bestWinStreak
                          >= StatsOf(statsUsers, u).bestWinStreak]_vars

\* C6 (as stated): no step decreases a player's persisted bestWinStreak.
BestStreakMonotone ==
  [][\A u \in Users : StatsOf(statsUsers', u).bestWinStreak
                        >= StatsOf(statsUsers, u).bestWinStreak]_vars

\* a player has lost a race after a win: the streak is back to 0, the best is kept
BestStreakWitness ==
  \E u \in DOMAIN statsUsers :
    statsUsers[u].bestWinStreak >= 1 /\ statsUsers[u].winStreak = 0

\* C7: on the stores of any reachable state, awardAchievement for a key the user
\* holds returns null and changes neither stats nor tokens; called twice in a row
\* for any user and key, the second call returns null and changes nothing.
AwardIdempotent ==
  \A u \in Users, k \in AchKeys :
    LET db == [users |-> statsUsers, tok |-> tokenDB]
        r1 == awardAchievement(db, u, k)
        r2 == awardAchievement([users |-> r1.users, tok |-> r1.tok], u, k)
    IN /\ (u \in DOMAIN statsUsers /\ k \in statsUsers[u].achievements)
            => (r1.def = "null" /\ r1.users = statsUsers /\ r1.tok = tokenDB)
       /\ r2.def = "null" /\ r2.users = r1.users /\ r2.tok = r1.tok

\* a player has won twice in a season: the second finalization called
\* awardAchievement for first_win, which the player held
AwardIdempotentWitness ==
  \E u \in DOMAIN statsUsers :
    /\ statsUsers[u].wins >= 2
    /\ "first_win" \in statsUsers[u].achievements
    /\ Len(grants[<<u, "first_win">>]) = 1

\* C8 (as amended): a player is paid the bonus of an achievement key at most once
\* per season.
BonusOncePerSeason ==
  \A x \in DOMAIN grants : \A a, b \in DOMAIN grants[x] :
    a # b => grants[x][a] # grants[x][b]

\* C8 (as stated): a player is paid the bonus of an achievement key at most once.
BonusOnce == \A x \in DOMAIN grants : Len(grants[x]) <= 1

\* a player has raced twice in the second season and holds one first_race bonus
\* of that season
BonusOnceWitness ==
  \E u \in DOMAIN statsUsers :
    /\ statsUsers[u].races >= 2
    /\ seasonNumber = 2
    /\ grants[<<u, "first_race">>] = <<2>>

RejectedOutcomes == {"frozen", "cap", "cooldown", "duplicate", "tokens"}

\* C9 (as amended): a rejected solo entry leaves token balances, cooldowns and the
\* active-race guards and counters as they were, and leaves the stats as they were
\* unless the season was due, in which case an entry rejected after the freeze
\* check has reset them.
RejectedEntryFrame ==
  [][last' \in RejectedOutcomes =>
       /\ tokenDB' = tokenDB
       /\ soloCd' = soloCd
       /\ activeSoloRace' = activeSoloRace
       /\ activeSoloRaceByGuild' = activeSoloRaceByGuild
       /\ \/ statsUsers' = statsUsers
          \/ seasonDue /\ last' # "frozen" /\ statsUsers' = NoUsers]_vars

\* C9 (as stated): a rejected solo entry leaves token balances, stats, cooldowns
\* and the active-race guards and counters as they were.
RejectedEntryUnchanged ==
  [][last' \in RejectedOutcomes =>
       /\ tokenDB' = tokenDB
       /\ statsUsers' = statsUsers
       /\ soloCd' = soloCd
       /\ activeSoloRace' = activeSoloRace
       /\ activeSoloRaceByGuild' = activeSoloRaceByGuild]_vars

\* an entry was rejected after the freeze check, in a season that began after the
\* last entry was accepted: a rejected entry has made the automatic reset
RejectedEntryWitness ==
  /\ last \in RejectedOutcomes \ {"frozen"}
  /\ seasonNumber = 2
  /\ statsUsers = NoUsers
  /\ Len(solo) = MaxSolo
  /\ \A i \in DOMAIN solo : solo[i].stRef = "stale"

\* C10: a step that starts a new season leaves no player with stats of the old
\* one (only the player whose accepted entry made the reset has stats, those of
\* that entry) and changes no balance (but for the cost of that entry) and no
\* lastDaily.
SeasonResetFrame ==
  [][seasonNumber' # seasonNumber =>
       \A u \in Users :
         LET entered == /\ Len(solo') = Len(solo) + 1
                        /\ solo'[Len(solo')].user = u
             cost    == TIERS[solo'[Len(solo')].tier].tokenCost
         IN /\ tokenDB'[u].lastDaily = tokenDB[u].lastDaily
            /\ IF entered
                 THEN /\ tokenDB'[u].tokens = tokenDB[u].tokens - cost
                      /\ statsUsers'[u] = [newUserStats EXCEPT !.races = 1]
                 ELSE /\ tokenDB'[u].tokens = tokenDB[u].tokens
                      /\ StatsOf(statsUsers', u) = newUserStats]_vars

\* the second season has begun with nobody's stats, and a player holds a balance
\* that racing in the first season has changed
SeasonResetWitness ==
  /\ seasonNumber = 2
  /\ statsUsers = NoUsers
  /\ \E u \in Users : tokenDB[u].tokens # StartTokens /\ Len(grants[<<u, "first_race">>]) = 1

\* C11: in every run of the tick loop every racer's position is within
\* 0 .. TRACK_LEN - 1 after every tick, and no tick decreases it or increases it by
\* more than 3.
PositionsBoundedMonotone ==
  /\ [](\A k \in DOMAIN race : \A i \in DOMAIN race[k].racers :
          race[k].racers[i].pos \in 0..(TRACK_LEN - 1))
  /\ [][\A k \in DOMAIN race : \A i \in DOMAIN race[k].racers :
          /\ race'[k].racers[i].pos >= race[k].racers[i].pos
          /\ race'[k].racers[i].pos - race[k].racers[i].pos <= 3]_vars

\* a racer has finished and rests on the last cell while another one, not yet
\* finished, is on the last cell too
PositionsWitness ==
  \E k \in DOMAIN race : \E i, j \in DOMAIN race[k].racers :
    /\ race[k].racers[i].finished /\ race[k].racers[i].pos = TRACK_LEN - 1
    /\ ~race[k].racers[j].finished /\ race[k].racers[j].pos = TRACK_LEN - 1

PlacesByFinishTick ==
  \A k \in DOMAIN race :
    race[k].places # << >> =>
      LET R      == race[k].racers
          P      == race[k].places
          ix(n)  == CHOOSE i \in DOMAIN COLOURS : COLOURS[i] = P[n]
      IN /\ Len(P) = Len(COLOURS)
         /\ {P[n] : n \in DOMAIN P} = ColourKeys
         /\ \A i \in DOMAIN R : R[i].finished /\ R[i].pos = TRACK_LEN - 1
         /\ \A m, n \in DOMAIN P :
              m < n => \/ R[ix(m)].finishTick < R[ix(n)].finishTick
                       \/ /\ R[ix(m)].finishTick = R[ix(n)].finishTick
                          /\ ix(m) < ix(n)

\* a finished run in which two racers crossed the line on the same tick
PlacesWitness ==
  \E k \in DOMAIN race :
    /\ race[k].places # << >>
    /\ \E i, j \in DOMAIN race[k].racers :
         i # j /\ race[k].racers[i].finishTick = race[k].racers[j].finishTick

\* C12: while a party finalization waits for a payout it has enqueued, every
\* entrant's stats have been updated and achievements evaluated (no entrant is
\* still to be visited by the loop).
StatsBeforePayouts ==
  \A p \in DOMAIN party :
    party[p].fin = "payout" => uidsOf(party[p]) \subseteq party[p].visited

\* C13: when the finalization loop of a party race has ended, every entrant the
\* race had when its finalization began has been visited by the loop: its stats
\* were updated and, payouts not being frozen, its payout task was enqueued.
EveryEntrantSettled ==
  \A p \in DOMAIN party :
    party[p].fin = "end" => party[p].entrants \subseteq party[p].visited

\* C14: a payout task whose 850 ms timer fires while payouts are frozen makes no
\* external call: it becomes "skipped" and stays so; no task ever leaves its chain,
\* and the task chained behind the skipped one starts its own timer.
FrozenTaskSkipped ==
  [][\A g \in Guilds, k \in Tasks :
       k \in DOMAIN payoutQueueByGuild[g] =>
         /\ k \in DOMAIN payoutQueueByGuild'[g]
         /\ (payoutQueueByGuild[g][k].state = "skipped"
               => payoutQueueByGuild'[g][k].state = "skipped")
         /\ (/\ payoutQueueByGuild[g][k].state = "sleeping"
             /\ settings.freezePayouts
             /\ payoutQueueByGuild'[g][k].state # "sleeping")
               => /\ payoutQueueByGuild'[g][k].state = "skipped"
                  /\ (/\ k + 1 \in DOMAIN payoutQueueByGuild[g]
                      /\ payoutQueueByGuild[g][k + 1].state = "queued")
                        => payoutQueueByGuild'[g][k + 1].state = "sleeping"]_vars

\* a task was skipped and the task that waited behind it is making its call
FrozenTaskWitness ==
  \E g \in Guilds, k \in Tasks :
    /\ k + 1 \in DOMAIN payoutQueueByGuild[g]
    /\ payoutQueueByGuild[g][k].state = "skipped"
    /\ payoutQueueByGuild[g][k + 1].state = "calling"
    /\ payoutQueueByGuild[g][k + 1].waited

\* C15: the external call of a task is made at most once (a task starts calling
\* only from its timer, never returns to the timer or the queue once it has called,
\* and a failed task stays failed), and every task enqueued behind a failed one for
\* the same guild is eventually executed.
CallOnceQueueGoesOn ==
  /\ [][\A g \in Guilds, k \in Tasks :
          k \in DOMAIN payoutQueueByGuild[g] =>
            /\ (/\ payoutQueueByGuild'[g][k].state = "calling"
                /\ payoutQueueByGuild[g][k].state # "calling")
                  => payoutQueueByGuild[g][k].state = "sleeping"
            /\ payoutQueueByGuild[g][k].state \in {"calling", "sent", "failed", "skipped"}
                  => payoutQueueByGuild'[g][k].state \notin {"queued", "sleeping"}
            /\ payoutQueueByGuild[g][k].state = "failed"
                  => payoutQueueByGuild'[g][k].state = "failed"]_vars
  /\ \A g \in Guilds, k \in Tasks, j \in Tasks :
       (/\ k < j
        /\ j \in DOMAIN payoutQueueByGuild[g]
        /\ payoutQueueByGuild[g][k].state = "failed")
          ~> (j \in DOMAIN payoutQueueByGuild[g] /\ Settled(payoutQueueByGuild[g][j]))

\* a call failed and the task that waited behind the failed one is making its call
FailedCallWitness ==
  \E g \in Guilds, k \in Tasks :
    /\ k + 1 \in DOMAIN payoutQueueByGuild[g]
    /\ payoutQueueByGuild[g][k].state = "failed"
    /\ payoutQueueByGuild[g][k + 1].state = "calling"
    /\ payoutQueueByGuild[g][k + 1].waited

\* C16: a race whose tick threw before its finalization began is marked finalized
\* and never finalizes: no payout task is enqueued for it; the throwing step stops
\* the timer of the tick and releases the guard (solo: the player leaves
\* activeSoloRace and the guild count drops by one; party: the guild registration
\* is deleted).
FaultEndsRace ==
  /\ [](\A i \in DOMAIN solo :
          solo[i].fin = "fault" =>
            /\ solo[i].raceFinalized
            /\ solo[i].timer = "off"
            /\ solo[i].finalCount = 0
            /\ solo[i].task = 0)
  /\ [](\A p \in DOMAIN party :
          party[p].fin = "fault" =>
            /\ party[p].finalized
            /\ party[p].finalCount = 0
            /\ party[p].visited = {}
            /\ party[p].task = 0)
  /\ [][\A i \in DOMAIN solo :
          (solo[i].fin # "fault" /\ solo'[i].fin = "fault") =>
            /\ solo[i].user \notin activeSoloRace'
            /\ activeSoloRaceByGuild'[solo[i].guild]
                 = Max(0, activeSoloRaceByGuild[solo[i].guild] - 1)]_vars
  /\ [][\A p \in DOMAIN party :
          (party[p].fin # "fault" /\ party'[p].fin = "fault") =>
            /\ party'[p].intervals = party[p].intervals - 1
            /\ partyByGuild'[party[p].guild] = 0]_vars

\* a solo race and a party race have both ended in the catch block of a tick
FaultWitness ==
  /\ \E i \in DOMAIN solo :
       solo[i].fin = "fault" /\ solo[i].user \notin activeSoloRace
  /\ \E p \in DOMAIN party :
       /\ party[p].fin = "fault"
       /\ party[p].state = "RUNNING"
       /\ partyByGuild[party[p].guild] = 0

\* C17: a player in the active-solo-race guard eventually leaves it, and an
\* occupied solo slot of a guild is eventually freed, whatever messaging calls fail.
GuardEventuallyReleased ==
  /\ \A u \in Users : (u \in activeSoloRace) ~> (u \notin activeSoloRace)
  /\ \A g \in Guilds : (activeSoloRaceByGuild[g] > 0) ~> (activeSoloRaceByGuild[g] = 0)

\* C18: a party that is RUNNING, registered for its guild and not yet finalized stays
\* registered with the same entrants in every step, unless the step finalizes it
\* (the finalization of its race begins, or a tick faults).
RunningPartyKept ==
  [][\A p \in DOMAIN party :
       (/\ party[p].state = "RUNNING"
        /\ ~party[p].finalized
        /\ partyByGuild[party[p].guild] = p)
         => \/ party'[p].finalized
            \/ /\ partyByGuild'[party[p].guild] = p
               /\ party'[p].players = party[p].players]_vars

\* C21: the finalizing callback of a solo race never holds back its result message
\* for the payout chain: no race waits, result unposted, while its own payout task
\* or an earlier task of the guild is not settled.
ResultNotBehindPayout ==
  \A i \in DOMAIN solo :
    ~ /\ solo[i].fin = "payout"
      /\ \E k \in DOMAIN payoutQueueByGuild[solo[i].guild] :
           /\ k <= solo[i].task
           /\ ~Settled(payoutQueueByGuild[solo[i].guild][k])

\* C22: after every tick a racer is marked finished if and only if its position is
\* TRACK_LEN - 1, and a racer that became finished in a tick has that tick as its
\* finishTick.
FinishedIffAtCap ==
  /\ [](\A k \in DOMAIN race : \A i \in DOMAIN race[k].racers :
          race[k].racers[i].finished <=> race[k].racers[i].pos = TRACK_LEN - 1)
  /\ [][\A k \in DOMAIN race : \A i \in DOMAIN race[k].racers :
          (~race[k].racers[i].finished /\ race'[k].racers[i].finished)
            => race'[k].racers[i].finishTick = race'[k].tick]_vars

\* C23: houseEdgeModifier returns -1 or 0 for ranks 0 and 1, 0 for a middle rank
\* and 0 or 1 for each of the bottom two ranks.
HouseEdgeWithinOne ==
  edge.calls > 0 =>
    /\ edge.rankIndex \in {0, 1} => edge.drag \in {0 - 1, 0}
    /\ edge.rankIndex \in 2..(Len(COLOURS) - 3) => edge.drag = 0
    /\ edge.rankIndex >= Len(COLOURS) - 2 => edge.drag \in {0, 1}

\* C24: the step of a party start that re-checks the members, when a member is on
\* party cooldown or below the tier cost, begins the cancellation of the lobby and
\* leaves every token balance, cooldown and stats object as it was, the party not
\* RUNNING; a member is debited only in a step in which every member passes, and
\* then every member is debited the tier cost.
FailedRecheckChangesNothing ==
  [][\A p \in DOMAIN party :
       LET P       == party[p]
           cost    == TIERS[P.tierKey].tokenCost
           blocked == \E uid \in uidsOf(P) : uid \in partyCd \/ tokenDB[uid].tokens < cost
       IN /\ (party'[p].audits < P.audits /\ blocked)
               => /\ tokenDB' = tokenDB
                  /\ partyCd' = partyCd
                  /\ statsUsers' = statsUsers
                  /\ party'[p].state = P.state
                  /\ party'[p].cancels = P.cancels + 1 \/ partyByGuild'[P.guild] = 0
          /\ (\E u \in Users : party'[p].debits[u] > P.debits[u])
               => /\ party'[p].audits < P.audits
                  /\ ~blocked
                  /\ \A uid \in uidsOf(P) :
                       /\ tokenDB'[uid].tokens = tokenDB[uid].tokens - cost
                       /\ party'[p].debits[uid] = P.debits[uid] + 1]_vars

\* C24 as stated: a party start that ends in a failed re-check leaves the lobby
\* cancelled and every member's tokens, cooldown and race count as they were when
\* the start began.
FailedStartChangesNothing ==
  [][\A p \in DOMAIN party :
       LET P       == party[p]
           cost    == TIERS[P.tierKey].tokenCost
           blocked == \E uid \in uidsOf(P) : uid \in partyCd \/ tokenDB[uid].tokens < cost
       IN (party'[p].audits < P.audits /\ blocked)
            => /\ tokenDB' = tokenDB
               /\ partyCd' = partyCd
               /\ party'[p].cancels = P.cancels + 1 \/ partyByGuild'[P.guild] = 0
               /\ \A uid \in uidsOf(P) :
                    StatsOf(statsUsers', uid).races = P.racesAtStart[uid]]_vars

\* the start of a lobby of two has failed its re-check: a member is below the tier
\* cost, nobody was debited, and the lobby is unregistered without having run
FailedRecheckWitness ==
  \E p \in DOMAIN party :
    /\ party[p].state = "LOBBY"
    /\ Len(party[p].players) = 2
    /\ party[p].audits = 0
    /\ partyByGuild[party[p].guild] = 0
    /\ \A u \in Users : party[p].debits[u] = 0
    /\ \E uid \in uidsOf(party[p]) :
         tokenDB[uid].tokens < TIERS[party[p].tierKey].tokenCost

\* C25: no player has two solo races at once that were accepted and are not yet
\* finalized.
AtMostOneSoloInProgress ==
  \A u \in Users :
    Cardinality({i \in DOMAIN solo : solo[i].user = u /\ ~solo[i].raceFinalized}) <= 1

\* C26: a lobby that is registered for its guild in state LOBBY eventually is not
\* any more: it runs, or it is cancelled and unregistered.
LobbyEventuallyLeft ==
  \A p \in Parties :
    (/\ p \in DOMAIN party
     /\ party[p].state = "LOBBY"
     /\ partyByGuild[party[p].guild] = p)
      ~> (/\ p \in DOMAIN party
          /\ party[p].state # "LOBBY" \/ partyByGuild[party[p].guild] # p)

\* C27: the solo-race counter of a guild counts the solo races of the guild in
\* progress: it is never below the number of races accepted and not yet finalized
\* (latch open) and never above the number of races whose finalizing callback has
\* not ended, so that the races in progress never exceed the cap.
SoloCounterExact ==
  \A g \in Guilds :
    LET running == {i \in DOMAIN solo : solo[i].guild = g /\ ~solo[i].raceFinalized}
        open    == {i \in DOMAIN solo :
                      solo[i].guild = g /\ solo[i].fin \notin {"done", "fault"}}
    IN /\ Cardinality(running) <= activeSoloRaceByGuild[g]
       /\ activeSoloRaceByGuild[g] <= Cardinality(open)
       /\ Cardinality(running) <= MAX_ACTIVE_SOLO_RACES_PER_GUILD

\* C28: the step that ends the finalization of a party race, or in which a tick of
\* it faults, leaves the registration of every other party as it was; and a guild
\* never has two live parties (a registered lobby, or a race that has started and
\* has neither finished nor faulted).
OwnRegistrationOnly ==
  /\ [][\A p \in DOMAIN party :
          (party[p].fin \notin {"done", "fault"} /\ party'[p].fin \in {"done", "fault"})
            => \A g \in Guilds :
                 partyByGuild[g] \notin {0, p} => partyByGuild'[g] = partyByGuild[g]]_vars
  /\ [](\A g \in Guilds :
          Cardinality({p \in DOMAIN party :
                         /\ party[p].guild = g
                         /\ party[p].fin \notin {"done", "fault"}
                         /\ partyByGuild[g] = p \/ party[p].state = "RUNNING"}) <= 1)

\* C29: every player debited at the start of a party race is an entrant of it from
\* the debit until its finalization begins, and has been visited by the finalization
\* loop (stats updated, payout task enqueued) when the loop has ended.
DebitedStayEntrants ==
  \A p \in DOMAIN party :
    LET debited == {u \in Users : party[p].debits[u] > 0}
    IN party[p].state = "RUNNING" =>
         /\ party[p].fin = "none" => debited = uidsOf(party[p])
         /\ party[p].fin \in {"end", "done"} => debited \subseteq party[p].visited

\* C30: the persisted stats of every player are ordered in every reachable state:
\* winStreak <= bestWinStreak <= wins <= podiums <= races.
StatsOrdered ==
  \A u \in DOMAIN statsUsers :
    /\ statsUsers[u].winStreak <= statsUsers[u].bestWinStreak
    /\ statsUsers[u].bestWinStreak <= statsUsers[u].wins
    /\ statsUsers[u].wins <= statsUsers[u].podiums
    /\ statsUsers[u].podiums <= statsUsers[u].races

====
